---- MODULE Spec2Model ----
(***************************************************************************)
(* Model of the chat request path of kidsclubplans-conversational:         *)
(* main.chat_stream.event_stream -> chat.chat_endpoint ->                  *)
(* chat.stream_openai_with_tools / chat.stream_anthropic_with_tools ->     *)
(* tools.execute_tool.                                                     *)
(*                                                                         *)
(* One behaviour is one chat request.  Every step is the code a generator  *)
(* runs between two suspension points (a provider chunk, a yield).  The    *)
(* provider, the tool handlers and the memory store are the environment:   *)
(* what they deliver or raise is chosen nondeterministically.              *)
(***************************************************************************)
EXTENDS Integers, Sequences, FiniteSets, TLC

VARIABLES
    ai_provider,        \* chat.py:146, with the *_AVAILABLE flags of chat.py:14-24
    vector_store,       \* chat.py:98, the store handed to the tools (chat.py:142)
    last_user_message,  \* chat.py:122-126
    pc,                 \* position of the request in event_stream / chat_endpoint / loop
    iteration,          \* chat.py:200 / 342
    current_messages,   \* chat.py:201 (claude_messages, chat.py:334, for Anthropic)
    content_buffer,     \* chat.py:216 / 357
    tool_calls_buffer,  \* chat.py:217 (tool_use_blocks, chat.py:358)
    current_tool_call,  \* chat.py:218 (current_block, chat.py:359)
    tool_index,         \* position of the for loop of chat.py:269 / 415
    tool_results,       \* chat.py:414
    events,             \* the outward SSE stream, in the order yielded
    pending_exc,        \* the exception propagating out of chat_endpoint, if any
    provider_calls,     \* history: number of provider calls issued by the loop
    exec_log,           \* history: one entry per execute_tool invocation
    delivered,          \* history: per call id, the fragments the provider sent this turn
    opened,             \* history: call ids the provider has opened this turn
    tool_turns,         \* history: provider turns that ended with a finalized tool call
    provider_exc,       \* history: the exception of the provider call that failed, if any
    budget,             \* remaining non-default environment choices
    text_deltas,        \* history: the text deltas received, each with its turn
                        \* and the calls the provider had opened before it
    attempt,            \* chat.py:467 / 521, the loop variable of the retry wrappers
    last_error,         \* chat.py:466 / 520
    attempt_log,        \* history: how each attempt of the wrapper ended
    sleeps,             \* history: the seconds of each asyncio.sleep between attempts
    db,                 \* memory.py:33-138, the sqlite file of MemoryManager: whether
                        \* a write to it succeeds, and the rows of its activities table
    client,             \* the HTTP client of the request: whether it has disconnected,
                        \* and (history) what the loop had done by then
    suspended,          \* whether the response generator is suspended at a yield
    tools,              \* tools.py:21, the registry: the names that have a handler
    heap,               \* the message lists (Python list objects) of concurrent requests
    requests,           \* concurrent requests: position, the lists each one holds,
                        \* and (history) the message lists it has sent to the provider
    cookies,            \* the kcp_sid cookie each HTTP client holds (main.py:181, 286-294)
    uuids,              \* the number of uuid.uuid4() values drawn so far
    limiters,           \* main.py:64-66, safety.py:53: per limiter and key, the
                        \* events inside the window
    responses,          \* the last answer of a schedule endpoint, and (history) the
                        \* client each saved id was returned to and the deletes of
                        \* each id that were answered with success
    now,                \* safety.py:56, time.time(), in ticks
    limiter_events,     \* safety.py:53, _events of one SlidingWindowRateLimiter:
                        \* per key the timestamps recorded, oldest first
    allow_log,          \* history: the allow() calls of that limiter and their answers
    interactions        \* memory.py:200-227: the add_interaction calls of the request,
                        \* each with the number of events yielded before it

vars == <<ai_provider, vector_store, last_user_message, pc, iteration, current_messages,
          content_buffer, tool_calls_buffer, current_tool_call, tool_index,
          tool_results, events, pending_exc, provider_calls, exec_log,
          delivered, opened, tool_turns, provider_exc, budget, text_deltas,
          attempt, last_error, attempt_log, sleeps, db, client, suspended,
          tools, heap, requests, cookies, uuids, limiters, responses,
          now, limiter_events, allow_log, interactions>>

-----------------------------------------------------------------------------
(* Bounds of the exploration *)

\* non-default environment choices (chunks, provider failures, an
\* unreachable store) one OpenAI request may contain
MaxRich == 2

\* the provider turns of the OpenAI loop in which non-default chunks
\* occur; later turns carry the default tool call
MaxRichTurn == 1

\* provider events one Anthropic request may contain
MaxAnthropicEvents == 4

\* the same two bounds for the behaviours checked under fairness
MaxRichFair == 1

MaxAnthropicEventsFair == 3

\* content events one run of a retry wrapper yields, over all its attempts
MaxWrapperContent == 2

\* provider calls of each of the requests that run side by side
MaxSharedRounds == 2

\* the resolution of the clock: instants per second
TicksPerSecond == 2

\* window_seconds of a limiter (60 in safety.py:72 and main.py:64-66), scaled down
WindowSeconds == 2

\* the instants of the clock
MaxTime == 8

\* allow() calls on the limiter
MaxAllowCalls == 4

\* uuid.uuid4() values the schedule endpoints and chat_stream draw
MaxUuids == 3

\* max_requests of schedule_save_limiter and delete_schedule_limiter,
\* main.py:64-66, where it is 10: scaled down so that a limiter refuses
MaxRequestsPerWindow == 2

\* calls of check_weather explored
MaxWeatherCalls == 2

-----------------------------------------------------------------------------
(* Program constants *)

max_iterations == 10

LLM_MAX_RETRIES == 2

-----------------------------------------------------------------------------
(* Values *)

NoCall == [id |-> "", name |-> "", arguments |-> <<>>]

Providers == {"openai", "anthropic", "none"}

CallIds == {"call_A", "call_B"}

\* tools.py:497, 1202: the tools of the registry the model follows
RegisteredTools == {"search_activities", "save_activity"}

\* the names the model may ask for: a registered one and an unregistered one
ToolNames == {"search_activities", "no_such_tool"}

\* argument text arrives as fragments; a text is the sequence of its fragments
Fragments == {"{\"query\":", "\"art\"}", "[1]"}

Texts == {"Hi"}

UserMessages == {"plan a day", "weapon"}

\* the vector store of the request: its search answers, or raises a
\* connection error (an unreachable store is one of the environment's
\* non-default choices)
VectorStores == {"ok", "unreachable"}

\* main.py:59, 84: the store is None when it is not configured
NoVectorStore == "none"

BLOCKED_PATTERNS == {"weapon"}

CapNotice == "[Note: Reached maximum tool iterations. Response may be incomplete.]"

NotConfigured == "AI service not configured. Please set OPENAI_API_KEY or ANTHROPIC_API_KEY."

SafetyMessage == "This request is outside safe-use policy for KidsClubPlans."

\* exceptions: the lower-cased class name and message are represented by the
\* keywords of classify_error they contain; text is str(exception)
Exc(cls, nameKw, msgKw, text) ==
    [cls |-> cls, name |-> nameKw, msg |-> msgKw, text |-> text]

NoExc == Exc("", {}, {}, "")

APITimeoutError == Exc("APITimeoutError", {"timeout"}, {"timeout"}, "Request timed out.")

AuthenticationError ==
    Exc("AuthenticationError", {"auth"}, {"invalid api key"}, "Invalid API key")

ValidationError ==
    Exc("ValidationError", {"validation"}, {"pydantic"},
        "1 validation error for ToolResult: parameters")

JSONDecodeError == Exc("JSONDecodeError", {}, {}, "Expecting value")

OperationalError == Exc("OperationalError", {}, {}, "database is locked")

OpenAIError == Exc("OpenAIError", {}, {}, "The api_key client option must be set")

\* the exception of a handler called without its required parameter
HandlerError ==
    Exc("TypeError", {}, {},
        "search_activities_tool() missing 1 required positional argument: 'query'")

APIConnectionError ==
    Exc("APIConnectionError", {"connection"}, {"connection"}, "Connection error.")

\* save_activity_tool called without its required parameters
SaveArgsError ==
    Exc("TypeError", {}, {},
        "save_activity_tool() missing 6 required positional arguments")

\* tools.py:1266: VectorStore (rag.py:26-105) defines no upsert_activity
UpsertAttributeError ==
    Exc("AttributeError", {}, {}, "'VectorStore' object has no attribute 'upsert_activity'")

ProviderExceptions == {APITimeoutError, AuthenticationError}

\* what an attempt of the retry wrappers can raise
WrapperExceptions == {APITimeoutError, AuthenticationError, APIConnectionError}

\* the keywords classify_error looks for in the lower-cased class name and in
\* the lower-cased message (observability.py:74-81)
NameKeywords == {"timeout", "auth", "connection", "validation"}

MsgKeywords == {"timeout", "unauthorized", "invalid api key", "network", "pydantic"}

\* every exception a provider call can raise, as far as classify_error can
\* tell them apart
AnyException ==
    {Exc("Exception", n, m, "provider call failed") :
        n \in SUBSET NameKeywords, m \in SUBSET MsgKeywords}

-----------------------------------------------------------------------------
(* observability.classify_error *)

\* mutant: auth is tested before timeout
classify_error_auth_first(exc) ==
    IF "auth" \in exc.name \/ "unauthorized" \in exc.msg
       \/ "invalid api key" \in exc.msg THEN "auth"
    ELSE IF "timeout" \in exc.name \/ "timeout" \in exc.msg THEN "timeout"
    ELSE IF "connection" \in exc.name \/ "network" \in exc.msg THEN "network"
    ELSE IF "validation" \in exc.name \/ "pydantic" \in exc.msg THEN "validation"
    ELSE "internal"

classify_error(exc) ==
    IF "timeout" \in exc.name \/ "timeout" \in exc.msg THEN "timeout"
    ELSE IF "auth" \in exc.name \/ "unauthorized" \in exc.msg
            \/ "invalid api key" \in exc.msg THEN "auth"
    ELSE IF "connection" \in exc.name \/ "network" \in exc.msg THEN "network"
    ELSE IF "validation" \in exc.name \/ "pydantic" \in exc.msg THEN "validation"
    ELSE "internal"

(* safety.check_input_safety *)

\* mutant: no pattern is searched for
check_input_safety_unfiltered(message) == TRUE

check_input_safety(message) == message \notin BLOCKED_PATTERNS

-----------------------------------------------------------------------------
(* JSON values and json.loads over the fragment alphabet *)

Dict(v) == [t |-> "dict", v |-> v, raw |-> <<>>]

List(v) == [t |-> "list", v |-> v, raw |-> <<>>]

Str(s) == [t |-> "str", v |-> "", raw |-> s]

Num(v) == [t |-> "int", v |-> v, raw |-> <<>>]

Text(v) == [t |-> "text", v |-> v, raw |-> <<>>]

EmptyDict == Dict("{}")

\* the argument object of a complete save_activity call
SaveArgs ==
    "{\"title\": \"Kite\", \"description\": \"d\", \"instructions\": \"i\", \"age_group\": \"6-8\", \"duration_minutes\": 30, \"supplies\": []}"

\* json.loads: the value of a text, or a JSONDecodeError.  The well-formed
\* texts are {"query": "art"}, whole or in two fragments, the save_activity
\* object, [1], 1 and "art".
JsonLoads(text) ==
    IF text = <<"{\"query\": \"art\"}">> \/ text = <<"{\"query\":", "\"art\"}">>
    THEN [ok |-> TRUE, value |-> Dict("{\"query\": \"art\"}")]
    ELSE IF text = <<SaveArgs>> THEN [ok |-> TRUE, value |-> Dict(SaveArgs)]
    ELSE IF text = <<"[1]">> THEN [ok |-> TRUE, value |-> List("[1]")]
    ELSE IF text = <<"1">> THEN [ok |-> TRUE, value |-> Num("1")]
    ELSE IF text = <<"\"art\"">> THEN [ok |-> TRUE, value |-> Text("art")]
    ELSE [ok |-> FALSE, value |-> EmptyDict]

\* the keys of an argument object
Keys(parameters) ==
    IF parameters = Dict("{\"query\": \"art\"}") THEN {"query"}
    ELSE IF parameters = Dict(SaveArgs)
    THEN {"title", "description", "instructions", "age_group", "duration_minutes", "supplies"}
    ELSE {}

-----------------------------------------------------------------------------
(* Outward events (the JSON payload of one SSE line) *)

Event(type, content, name, arguments, message, error_type) ==
    [type |-> type, content |-> content, name |-> name, arguments |-> arguments,
     message |-> message, error_type |-> error_type]

ContentEvent(text) == Event("content", text, "", EmptyDict, "", "")

ToolCallEvent(name, arguments) == Event("tool_call", "", name, arguments, "", "")

ErrorEvent(message, error_type) == Event("error", "", "", EmptyDict, message, error_type)

DoneEvent == Event("done", "", "", EmptyDict, "", "")

\* the error event of the except clauses: message str(e), error_type classify_error(e)
ExceptionEvent(e) == ErrorEvent(e.text, classify_error(e))

-----------------------------------------------------------------------------
(* Messages of the conversation *)

Msg(role, content, tool_calls, tool_call_id, results) ==
    [role |-> role, content |-> content, tool_calls |-> tool_calls,
     tool_call_id |-> tool_call_id, tool_results |-> results]

SystemMessage == Msg("system", <<"system prompt">>, <<>>, "", <<>>)

UserMessage(text) == Msg("user", <<text>>, <<>>, "", <<>>)

\* chat.py:117-119
BuildMessages(text) == <<SystemMessage, UserMessage(text)>>

\* chat.py:201: the OpenAI loop works on a copy of all messages;
\* chat.py:333-340: the Anthropic loop on the non-system ones
InitialLoopMessages(provider, messages) ==
    IF provider = "anthropic"
    THEN SelectSeq(messages, LAMBDA m : m.role # "system")
    ELSE messages

-----------------------------------------------------------------------------
(* models.ToolResult and tools.execute_tool *)

\* tools.py:498 / 1203-1208: the parameters of a handler that have no default
RequiredParams(tool_name) ==
    IF tool_name = "save_activity"
    THEN {"title", "description", "instructions", "age_group", "duration_minutes", "supplies"}
    ELSE {"query"}

\* mutant: the exception of the failed write is not caught
save_activity_uncaught(d) ==
    [saved |-> d.writable, raised |-> ~d.writable,
     db |-> IF d.writable THEN [d EXCEPT !.activities = @ + 1] ELSE d]

\* memory.py:344-385, MemoryManager.save_activity: True when the row was
\* written; an exception of the write is caught and False returned
save_activity(d) ==
    [saved |-> d.writable, raised |-> FALSE,
     db |-> IF d.writable THEN [d EXCEPT !.activities = @ + 1] ELSE d]

\* what a handler returns when it does not raise.
\* search_activities (tools.py:509-563): an error dictionary without a store,
\* else the activities found; VectorStore.search catches the exception of an
\* unreachable index and returns no activity (rag.py:76-105).
\* save_activity (tools.py:1243-1287), reached only without a vector store:
\* success is sqlite_saved or pinecone_saved.
HandlerResult(tool_name) ==
    IF tool_name = "save_activity"
    THEN IF save_activity(db).saved
         THEN "{\"success\": true, \"fully_persisted\": false, \"saved_to\": {\"sqlite\": true, \"pinecone\": false}}"
         ELSE "{\"success\": false, \"fully_persisted\": false, \"saved_to\": {\"sqlite\": false, \"pinecone\": false}}"
    ELSE IF vector_store = NoVectorStore
    THEN "{\"success\": false, \"error\": \"Vector store not available\", \"activities\": []}"
    ELSE IF vector_store = "unreachable"
    THEN "{\"success\": true, \"count\": 0, \"activities\": []}"
    ELSE "{\"success\": true, \"count\": 1, \"activities\": [{\"title\": \"Paper Plate Art\"}]}"

\* the pydantic constructor: parameters is declared Dict[str, Any], so any
\* other value raises ValidationError
ToolResult(tool_name, parameters, result, success, error_message) ==
    [raised |-> parameters.t # "dict", exc |-> ValidationError,
     tool_name |-> tool_name, parameters |-> parameters, result |-> result,
     success |-> success, error_message |-> error_message]

\* tools.py:396: f"Unknown tool: {tool_name}"; over ToolNames the only
\* unregistered name is no_such_tool
UnknownToolMessage(tool_name) == "Unknown tool: no_such_tool"

\* the handler is called only for a registered name, and **parameters raises
\* TypeError before the call unless parameters is a mapping
HandlerInvoked(tool_name, parameters) ==
    tool_name \in tools /\ parameters.t = "dict"

\* tools.py:400-405: the call raises TypeError when the arguments lack a
\* required parameter.  The body of search_activities returns a dictionary
\* in every case (tools.py:509-563); the body of save_activity raises when
\* there is a vector store, on vector_store.upsert_activity (tools.py:1266)
HandlerRaises(tool_name, parameters) ==
    \/ ~(RequiredParams(tool_name) \subseteq Keys(parameters))
    \/ /\ tool_name = "save_activity"
       /\ (save_activity(db).raised \/ vector_store # NoVectorStore)

\* the exception of a handler that raises
HandlerException(tool_name, parameters) ==
    IF ~(RequiredParams(tool_name) \subseteq Keys(parameters))
    THEN IF tool_name = "save_activity" THEN SaveArgsError ELSE HandlerError
    ELSE IF save_activity(db).raised THEN OperationalError
    ELSE UpsertAttributeError

\* the sqlite file after execute_tool: save_activity writes its row before
\* it turns to the vector store (tools.py:1248-1250)
DbAfterTool(tool_name, parameters) ==
    IF /\ HandlerInvoked(tool_name, parameters)
       /\ tool_name = "save_activity"
       /\ RequiredParams(tool_name) \subseteq Keys(parameters)
       /\ ~save_activity(db).raised
    THEN save_activity(db).db
    ELSE db

\* mutant: the handler is called outside the try, so its exception propagates
execute_tool_uncaught(tool_name, parameters, handler_raises) ==
    IF tool_name \notin tools
    THEN ToolResult(tool_name, parameters, "{}", FALSE, UnknownToolMessage(tool_name))
    ELSE IF parameters.t # "dict"
    THEN ToolResult(tool_name, parameters, "{}", FALSE, "argument after ** must be a mapping")
    ELSE IF handler_raises
    THEN [ToolResult(tool_name, parameters, "{}", FALSE,
                     HandlerException(tool_name, parameters).text)
            EXCEPT !.raised = TRUE, !.exc = HandlerException(tool_name, parameters)]
    ELSE ToolResult(tool_name, parameters, HandlerResult(tool_name), TRUE, "")

\* handler_raises: whether the handler, if it is invoked, raises
execute_tool(tool_name, parameters, handler_raises) ==
    IF tool_name \notin tools
    THEN ToolResult(tool_name, parameters, "{}", FALSE, UnknownToolMessage(tool_name))
    ELSE IF parameters.t # "dict"
    THEN ToolResult(tool_name, parameters, "{}", FALSE, "argument after ** must be a mapping")
    ELSE IF handler_raises
    THEN ToolResult(tool_name, parameters, "{}", FALSE,
                    HandlerException(tool_name, parameters).text)
    ELSE ToolResult(tool_name, parameters, HandlerResult(tool_name), TRUE, "")

\* mutant: the result dictionary is serialized even when the tool failed
ToolResponseContentOfResult(result) ==
    [error |-> FALSE, body |-> result.result]

\* chat.py:294 / 436: the content folded back to the model
ToolResponseContent(result) ==
    IF result.success
    THEN [error |-> FALSE, body |-> result.result]
    ELSE [error |-> TRUE, body |-> result.error_message]

\* mutant: the tool message is keyed to the tool's name instead of the call id
ToolResponseKeyedByName(tool_call, result) ==
    Msg("tool", ToolResponseContent(result), <<>>, tool_call.name, <<>>)

\* chat.py:291-295
ToolResponse(tool_call, result) ==
    Msg("tool", ToolResponseContent(result), <<>>, tool_call.id, <<>>)

\* chat.py:433-437
ToolResultBlock(tool_use, result) ==
    [tool_use_id |-> tool_use.id, content |-> ToolResponseContent(result)]

-----------------------------------------------------------------------------
(* Provider chunks.  call is the call a tool chunk belongs to (the index of   *)
(* the provider protocol); the code sees the id only when the chunk carries  *)
(* one.                                                                      *)

Chunk(k, call, hasId, name, args, text) ==
    [k |-> k, call |-> call, hasId |-> hasId, name |-> name, args |-> args, text |-> text]

Frag(args) == IF args = "" THEN <<>> ELSE <<args>>

\* chat.py:231-250, for one element tc of delta.tool_calls
OpenAIAccumulate(cur, buf, tc_id, tc_name, tc_arguments) ==
    IF tc_id # ""
    THEN [buf |-> IF cur # NoCall /\ cur.id # tc_id THEN Append(buf, cur) ELSE buf,
          cur |-> [id |-> tc_id, name |-> tc_name, arguments |-> Frag(tc_arguments)]]
    ELSE IF cur # NoCall
    THEN [buf |-> buf,
          cur |-> [cur EXCEPT !.name = IF tc_name # "" THEN tc_name ELSE @,
                              !.arguments = @ \o Frag(tc_arguments)]]
    ELSE [buf |-> buf, cur |-> cur]

\* chat.py:252-254
OpenAIFinalize(cur, buf) == IF cur # NoCall THEN Append(buf, cur) ELSE buf

\* chat.py:371-389
AnthropicAccumulate(cur, buf, chunk) ==
    IF chunk.k = "start"
    THEN [buf |-> buf, cur |-> [id |-> chunk.call, name |-> chunk.name, arguments |-> <<>>]]
    ELSE IF chunk.k = "json"
    THEN [buf |-> buf,
          cur |-> IF cur # NoCall THEN [cur EXCEPT !.arguments = @ \o Frag(chunk.args)]
                  ELSE cur]
    ELSE IF chunk.k = "stop" /\ cur # NoCall
    THEN [buf |-> Append(buf, cur), cur |-> NoCall]
    ELSE [buf |-> buf, cur |-> cur]

\* chat.py:270-274: tool_args of the OpenAI loop
OpenAIToolArgs(tool_call) ==
    IF JsonLoads(tool_call.arguments).ok
    THEN JsonLoads(tool_call.arguments).value
    ELSE EmptyDict

\* chat.py:417: tool_args of the Anthropic loop is the accumulated input string
AnthropicToolArgs(tool_use) == Str(tool_use.arguments)

\* chat.py:405: json.loads(input) if input else {} ; may raise
AnthropicInputRaises(tool_use) ==
    tool_use.arguments # <<>> /\ ~JsonLoads(tool_use.arguments).ok

AnthropicInput(tool_use) ==
    IF tool_use.arguments = <<>> THEN EmptyDict ELSE JsonLoads(tool_use.arguments).value

ToolArgs(provider, call) ==
    IF provider = "anthropic" THEN AnthropicToolArgs(call) ELSE OpenAIToolArgs(call)

\* mutant: the bound of the loop is off by one
WhileConditionOffByOne(i) == i <= max_iterations

\* chat.py:203 / 344
WhileCondition(i) == i < max_iterations

-----------------------------------------------------------------------------
(* The environment's choices *)

DefaultChunk ==
    Chunk("tc", "call_A", TRUE, "search_activities", "{\"query\": \"art\"}", "")

\* a text delta; the provider may send an empty one
TextChunks == {Chunk("text", "", FALSE, "", "", t) : t \in Texts \cup {""}}

\* OpenAI: a tool-call delta carries the id when it opens the call (some
\* providers repeat it), and only arguments afterwards
OpenAIChunks(open) ==
    TextChunks
    \cup {DefaultChunk}
    \cup {Chunk("tc", c, TRUE, n, a, "") : c \in CallIds, n \in ToolNames,
                                           a \in Fragments \cup {""}}
    \cup {Chunk("tc", c, FALSE, "", a, "") : c \in open, a \in Fragments}

\* Anthropic: content_block_start (tool_use), input_json_delta, content_block_stop
AnthropicChunks(open) ==
    TextChunks
    \cup {Chunk("start", c, TRUE, n, "", "") : c \in CallIds, n \in ToolNames}
    \cup {Chunk("json", c, FALSE, "", a, "") : c \in open, a \in Fragments}
    \cup {Chunk("stop", c, FALSE, "", "", "") : c \in open}

TurnEmpty ==
    content_buffer = <<>> /\ current_tool_call = NoCall /\ tool_calls_buffer = <<>>

\* the request has so far seen nothing but default tool calls that succeeded
PlainSoFar ==
    /\ text_deltas = <<>>
    /\ \A i \in DOMAIN exec_log :
          /\ exec_log[i].success
          /\ exec_log[i].id = DefaultChunk.call
          /\ exec_log[i].name = DefaultChunk.name
          /\ exec_log[i].text = <<DefaultChunk.args>>

\* the default tool call is free as the first chunk of a turn of a request
\* that has been plain so far; every other choice is paid from the budget
Cost(chunk) ==
    IF ai_provider = "openai" /\ TurnEmpty /\ PlainSoFar /\ chunk = DefaultChunk
    THEN 0 ELSE 1

\* whether the environment may still make a non-default choice in this turn
RichAllowed == budget > 0 /\ (ai_provider = "openai" => iteration <= MaxRichTurn)

InitialBudget(provider, rich, anthropicEvents) ==
    IF provider = "anthropic" THEN anthropicEvents ELSE rich

-----------------------------------------------------------------------------
(* The client and the response generator.  chat_endpoint and the two loops   *)
(* are async generators whose provider and tool calls are synchronous        *)
(* (chat.py:194-198, 207, 221, 288 / 347, 361, 431): the server can stop     *)
(* driving them only while they are suspended at a yield (main.py:260-261); *)
(* between two yields the code runs on whatever the client does.             *)

Connected == [gone |-> FALSE, provider_calls |-> 0, executed |-> 0, received |-> 0]

\* the server resumes the generator after a yield unless the client is gone
Resumable == ~(client.gone /\ suspended)

\* the requests of the process that run side by side
Requests == {1, 2}

NoRequests == [r \in Requests |-> [pc |-> "idle", messages |-> 0, current |-> 0,
                                   iteration |-> 0, sent |-> <<>>]]

\* the HTTP clients of the schedule endpoints
Clients == {"alice", "bob"}

\* main.py:181, request.cookies.get("kcp_sid") of a request without the cookie
NoCookie == 0

NoCookies == [c \in Clients |-> NoCookie]

\* uuid.uuid4() yields values that never repeat: the next unused number
Uuids == 1..MaxUuids

\* main.py:64, 66
LimiterNames == {"schedule_save", "delete_schedule"}

\* safety.py:53, no event recorded under any key
NoLimiterEvents == [l \in LimiterNames |-> [key \in Uuids |-> 0]]

\* the keys of the limiter: the user ids of main.py:226, 487, 645
LimiterKeys == {"u1", "u2"}

\* safety.py:53, an empty defaultdict: every key's deque is empty
NoEvents == [key \in LimiterKeys |-> <<>>]

\* an answer of a schedule endpoint
Response(op, c, user_id, id, status, total) ==
    [op |-> op, client |-> c, user_id |-> user_id, id |-> id, status |-> status,
     total |-> total]

NoResponses ==
    [last |-> Response("", "", 0, 0, 0, 0), returned |-> {}, delete_called |-> {},
     deleted |-> <<>>]

-----------------------------------------------------------------------------
(* Initial state: a request has reached chat_stream's event_stream *)

InitOf(messages, rich, anthropicEvents) ==
    /\ ai_provider \in Providers
    /\ vector_store \in VectorStores
    /\ last_user_message \in messages
    /\ pc = "start"
    /\ iteration = 0
    /\ current_messages = <<>>
    /\ content_buffer = <<>>
    /\ tool_calls_buffer = <<>>
    /\ current_tool_call = NoCall
    /\ tool_index = 0
    /\ tool_results = <<>>
    /\ events = <<>>
    /\ pending_exc = NoExc
    /\ provider_calls = 0
    /\ exec_log = <<>>
    /\ delivered = [c \in CallIds |-> <<>>]
    /\ opened = {}
    /\ tool_turns = 0
    /\ provider_exc = NoExc
    /\ budget = InitialBudget(ai_provider, rich, anthropicEvents)
                - (IF vector_store = "unreachable" THEN 1 ELSE 0)
    /\ text_deltas = <<>>
    /\ attempt = 0
    /\ last_error = NoExc
    /\ attempt_log = <<>>
    /\ sleeps = <<>>
    /\ db = [writable |-> TRUE, activities |-> 0, schedules |-> {}]
    /\ client = Connected
    /\ suspended = FALSE
    /\ tools = RegisteredTools
    /\ heap = <<>>
    /\ requests = NoRequests
    /\ cookies = NoCookies
    /\ uuids = 0
    /\ limiters = NoLimiterEvents
    /\ responses = NoResponses
    /\ now = 0
    /\ limiter_events = NoEvents
    /\ allow_log = <<>>
    /\ interactions = <<>>

InitWith(rich, anthropicEvents) == InitOf(UserMessages, rich, anthropicEvents)

Init == InitWith(MaxRich, MaxAnthropicEvents)

FairInit == InitWith(MaxRichFair, MaxAnthropicEventsFair)

\* a message of white space only: it passes min_length = 1 (main.py:169)
Blank == "   "

\* the messages a client sends: those of UserMessages hold single spaces and
\* no space at either end
RawMessages == UserMessages \cup {Blank}

\* safety.py:34-36: runs of white space become one space and the ends are
\* stripped
normalize_text(text) == IF text = Blank THEN "" ELSE text

\* main.py:238: the message chat_endpoint is given
NormalizedMessages == {normalize_text(m) : m \in RawMessages}

MemoryInit == InitOf(NormalizedMessages, MaxRichFair, MaxAnthropicEventsFair)

\* the state of stream_openai / stream_anthropic, which chat_endpoint never calls
wrapperVars == <<attempt, last_error, attempt_log, sleeps>>

\* the state of the schedule endpoints of main.py
apiVars == <<cookies, uuids, limiters, responses>>

\* the state of the rate limiter of safety.py:47-68
limiterVars == <<now, limiter_events, allow_log>>

\* the registry and the state of the requests that run side by side, of the
\* schedule endpoints and of the limiter
serverVars == <<tools, heap, requests, apiVars, limiterVars>>

sharedVars == <<serverVars, interactions>>

\* what only the retry wrappers, the tool handlers and the client change
restVars == <<wrapperVars, db, client, sharedVars>>

loopVars == <<iteration, current_messages, content_buffer, tool_calls_buffer,
              current_tool_call, tool_index, tool_results, provider_calls,
              exec_log, delivered, opened, tool_turns, provider_exc, budget,
              text_deltas>>

-----------------------------------------------------------------------------
(* chat_endpoint before the loop, chat.py:103-163 *)

\* chat.py:106-108: reading the user context from the store raises
ContextReadFails ==
    /\ Resumable
    /\ pc = "start"
    /\ pending_exc' = OperationalError
    /\ pc' = "raised"
    /\ UNCHANGED <<ai_provider, vector_store, last_user_message, events>>
    /\ UNCHANGED loopVars
    /\ UNCHANGED restVars
    /\ suspended' = (events' # events)

\* chat.py:128-136
SafetyBlock ==
    /\ Resumable
    /\ pc = "start"
    /\ ~check_input_safety(last_user_message)
    /\ events' = events \o <<ErrorEvent(SafetyMessage, "safety"), DoneEvent>>
    /\ pc' = "closed"
    /\ UNCHANGED <<ai_provider, vector_store, last_user_message, pending_exc>>
    /\ UNCHANGED loopVars
    /\ UNCHANGED restVars
    /\ suspended' = (events' # events)

\* chat.py:161-163
NotConfiguredReply ==
    /\ Resumable
    /\ pc = "start"
    /\ check_input_safety(last_user_message)
    /\ ai_provider = "none"
    /\ events' = Append(events, ContentEvent(NotConfigured))
    /\ pc' = "save"
    /\ UNCHANGED <<ai_provider, vector_store, last_user_message, pending_exc>>
    /\ UNCHANGED loopVars
    /\ UNCHANGED restVars
    /\ suspended' = (events' # events)

\* chat.py:194-198: OpenAI(api_key=None) raises outside the loop's try
ClientInitFails ==
    /\ Resumable
    /\ pc = "start"
    /\ check_input_safety(last_user_message)
    /\ ai_provider = "openai"
    /\ pending_exc' = OpenAIError
    /\ pc' = "raised"
    /\ UNCHANGED <<ai_provider, vector_store, last_user_message, events>>
    /\ UNCHANGED loopVars
    /\ UNCHANGED restVars
    /\ suspended' = (events' # events)

\* chat.py:151-160 with 194-201 / 319-342
LoopStart ==
    /\ Resumable
    /\ pc = "start"
    /\ check_input_safety(last_user_message)
    /\ ai_provider \in {"openai", "anthropic"}
    /\ iteration' = 0
    /\ current_messages' = InitialLoopMessages(ai_provider, BuildMessages(last_user_message))
    /\ pc' = "loop"
    /\ UNCHANGED <<ai_provider, vector_store, last_user_message, events, pending_exc, content_buffer,
                   tool_calls_buffer, current_tool_call, tool_index, tool_results,
                   provider_calls, exec_log, delivered, opened, tool_turns, provider_exc,
                   budget>>
    /\ UNCHANGED restVars
    /\ UNCHANGED text_deltas
    /\ suspended' = (events' # events)

-----------------------------------------------------------------------------
(* The tool-calling loop, chat.py:203-307 and 344-454 *)

\* chat.py:203-218 / 344-359: one more round, one provider call
ProviderCall ==
    /\ Resumable
    /\ pc = "loop"
    /\ WhileCondition(iteration)
    /\ iteration' = iteration + 1
    /\ provider_calls' = provider_calls + 1
    /\ content_buffer' = <<>>
    /\ tool_calls_buffer' = <<>>
    /\ current_tool_call' = NoCall
    /\ delivered' = [c \in CallIds |-> <<>>]
    /\ opened' = {}
    /\ pc' = "streaming"
    /\ UNCHANGED <<ai_provider, vector_store, last_user_message, current_messages, tool_index,
                   tool_results, events, pending_exc, exec_log, tool_turns, provider_exc,
                   budget>>
    /\ UNCHANGED restVars
    /\ UNCHANGED text_deltas
    /\ suspended' = (events' # events)

\* mutant: the results of the final round are sent to the provider once more
\* before the notice
CapReachedAfterFinalCall ==
    /\ Resumable
    /\ pc = "loop"
    /\ ~WhileCondition(iteration)
    /\ provider_calls' = provider_calls + 1
    /\ events' = Append(events, ContentEvent(CapNotice))
    /\ pc' = "save"
    /\ UNCHANGED <<ai_provider, vector_store, last_user_message, pending_exc>>
    /\ UNCHANGED <<iteration, current_messages, content_buffer, tool_calls_buffer,
                   current_tool_call, tool_index, tool_results, exec_log, delivered,
                   opened, tool_turns, provider_exc, budget, text_deltas>>
    /\ UNCHANGED restVars
    /\ suspended' = (events' # events)

\* chat.py:306-307 / 453-454: the while condition failed
CapReached ==
    /\ Resumable
    /\ pc = "loop"
    /\ ~WhileCondition(iteration)
    /\ events' = Append(events, ContentEvent(CapNotice))
    /\ pc' = "save"
    /\ UNCHANGED <<ai_provider, vector_store, last_user_message, pending_exc>>
    /\ UNCHANGED loopVars
    /\ UNCHANGED restVars
    /\ suspended' = (events' # events)

\* chat.py:224-225 / 364-366: what a text delta adds to content_buffer
TextBuffered(text) == IF text # "" THEN <<text>> ELSE <<>>

\* mutant: an empty text delta is forwarded too
TextEventsUnfiltered(text) == <<ContentEvent(text)>>

\* chat.py:224-227 / 364-368: the content event of a text delta
TextEvents(text) == IF text # "" THEN <<ContentEvent(text)>> ELSE <<>>

\* chat.py:220-250 / 361-389: one chunk of the provider stream
StreamChunk ==
    /\ Resumable
    /\ pc = "streaming"
    /\ \E chunk \in (IF ai_provider = "anthropic" THEN AnthropicChunks(opened)
                      ELSE OpenAIChunks(opened)) :
          /\ Cost(chunk) > 0 => RichAllowed
          /\ budget' = budget - Cost(chunk)
          /\ IF chunk.k = "text"
             THEN /\ content_buffer' = content_buffer \o TextBuffered(chunk.text)
                  /\ events' = events \o TextEvents(chunk.text)
                  /\ text_deltas' = Append(text_deltas, [turn |-> iteration,
                                                         text |-> chunk.text,
                                                         after |-> opened])
                  /\ UNCHANGED <<tool_calls_buffer, current_tool_call, delivered, opened>>
             ELSE LET acc == IF ai_provider = "anthropic"
                             THEN AnthropicAccumulate(current_tool_call, tool_calls_buffer, chunk)
                             ELSE OpenAIAccumulate(current_tool_call, tool_calls_buffer,
                                                   IF chunk.hasId THEN chunk.call ELSE "",
                                                   chunk.name, chunk.args)
                  IN  /\ current_tool_call' = acc.cur
                      /\ tool_calls_buffer' = acc.buf
                      /\ delivered' = [delivered EXCEPT ![chunk.call] = @ \o Frag(chunk.args)]
                      /\ opened' = opened \cup {chunk.call}
                      /\ UNCHANGED <<content_buffer, events, text_deltas>>
    /\ UNCHANGED <<ai_provider, vector_store, last_user_message, pc, iteration, current_messages,
                   tool_index, tool_results, pending_exc, provider_calls, exec_log,
                   tool_turns, provider_exc>>
    /\ UNCHANGED restVars
    /\ suspended' = (events' # events)

\* mutant: the except clause goes on with the next round instead of returning
ProviderFailsAndContinues ==
    /\ Resumable
    /\ pc = "streaming"
    /\ budget > 0
    /\ budget' = budget - 1
    /\ \E e \in ProviderExceptions :
          /\ events' = Append(events, ExceptionEvent(e))
          /\ provider_exc' = e
    /\ pc' = "loop"
    /\ UNCHANGED <<ai_provider, vector_store, last_user_message, iteration, current_messages,
                   content_buffer, tool_calls_buffer, current_tool_call, tool_index,
                   tool_results, pending_exc, provider_calls, exec_log, delivered, opened,
                   tool_turns>>
    /\ UNCHANGED restVars
    /\ UNCHANGED text_deltas
    /\ suspended' = (events' # events)

\* chat.py:298-304 / 445-451: the provider call raises, when it is issued or
\* while its stream is read
ProviderFails ==
    /\ Resumable
    /\ pc = "streaming"
    /\ budget > 0
    /\ budget' = budget - 1
    /\ \E e \in ProviderExceptions :
          /\ events' = Append(events, ExceptionEvent(e))
          /\ provider_exc' = e
    /\ pc' = "save"
    /\ UNCHANGED <<ai_provider, vector_store, last_user_message, iteration, current_messages,
                   content_buffer, tool_calls_buffer, current_tool_call, tool_index,
                   tool_results, pending_exc, provider_calls, exec_log, delivered, opened,
                   tool_turns>>
    /\ UNCHANGED restVars
    /\ UNCHANGED text_deltas
    /\ suspended' = (events' # events)

\* the finalized calls of the turn: chat.py:252-254; the Anthropic loop keeps
\* only the blocks closed by content_block_stop
Finalized ==
    IF ai_provider = "anthropic" THEN tool_calls_buffer
    ELSE OpenAIFinalize(current_tool_call, tool_calls_buffer)

\* mutant: the return is missing and the loop goes on to its next round
FinalAnswerContinues ==
    /\ Resumable
    /\ pc = "streaming"
    /\ Finalized = <<>>
    /\ pc' = "loop"
    /\ UNCHANGED <<ai_provider, vector_store, last_user_message, events, pending_exc>>
    /\ UNCHANGED loopVars
    /\ UNCHANGED restVars
    /\ suspended' = (events' # events)

\* chat.py:256-258 / 391-393: the stream ended with no tool call
FinalAnswer ==
    /\ Resumable
    /\ pc = "streaming"
    /\ Finalized = <<>>
    /\ pc' = "save"
    /\ UNCHANGED <<ai_provider, vector_store, last_user_message, events, pending_exc>>
    /\ UNCHANGED loopVars
    /\ UNCHANGED restVars
    /\ suspended' = (events' # events)

\* chat.py:261-265
OpenAIAssistantMessage(content, calls) == Msg("assistant", content, calls, "", <<>>)

\* chat.py:396-411
AnthropicAssistantMessage(content, blocks) ==
    Msg("assistant", content,
        [i \in 1..Len(blocks) |->
            [id |-> blocks[i].id, name |-> blocks[i].name, input |-> AnthropicInput(blocks[i])]],
        "", <<>>)

\* chat.py:260-266 / 395-411: the stream ended with tool calls
AssistantTurn ==
    /\ Resumable
    /\ pc = "streaming"
    /\ Finalized # <<>>
    /\ ai_provider = "anthropic" =>
          \A i \in 1..Len(Finalized) : ~AnthropicInputRaises(Finalized[i])
    /\ tool_calls_buffer' = Finalized
    /\ current_messages' =
          Append(current_messages,
                 IF ai_provider = "anthropic"
                 THEN AnthropicAssistantMessage(content_buffer, Finalized)
                 ELSE OpenAIAssistantMessage(content_buffer, Finalized))
    /\ tool_index' = 1
    /\ tool_results' = <<>>
    /\ tool_turns' = tool_turns + 1
    /\ pc' = "tools"
    /\ UNCHANGED <<ai_provider, vector_store, last_user_message, iteration, content_buffer,
                   current_tool_call, events, pending_exc, provider_calls, exec_log,
                   delivered, opened, provider_exc, budget>>
    /\ UNCHANGED restVars
    /\ UNCHANGED text_deltas
    /\ suspended' = (events' # events)

\* chat.py:405 with 445-451: json.loads of a block's input raises
AnthropicInputFails ==
    /\ Resumable
    /\ pc = "streaming"
    /\ ai_provider = "anthropic"
    /\ \E i \in 1..Len(Finalized) : AnthropicInputRaises(Finalized[i])
    /\ events' = Append(events, ExceptionEvent(JSONDecodeError))
    /\ tool_turns' = tool_turns + 1
    /\ pc' = "save"
    /\ UNCHANGED <<ai_provider, vector_store, last_user_message, pending_exc, iteration,
                   current_messages, content_buffer, tool_calls_buffer, current_tool_call,
                   tool_index, tool_results, provider_calls, exec_log, delivered, opened,
                   provider_exc, budget>>
    /\ UNCHANGED restVars
    /\ UNCHANGED text_deltas
    /\ suspended' = (events' # events)

\* mutant: the notice of a call is not yielded
EmitToolCallMissing ==
    /\ Resumable
    /\ pc = "tools"
    /\ pc' = "exec"
    /\ UNCHANGED <<ai_provider, vector_store, last_user_message, pending_exc, events>>
    /\ UNCHANGED loopVars
    /\ UNCHANGED restVars
    /\ suspended' = (events' # events)

\* chat.py:269-284 / 415-427: the tool_call notice of the next call
EmitToolCall ==
    /\ Resumable
    /\ pc = "tools"
    /\ LET call == tool_calls_buffer[tool_index]
       IN  events' = Append(events, ToolCallEvent(call.name, ToolArgs(ai_provider, call)))
    /\ pc' = "exec"
    /\ UNCHANGED <<ai_provider, vector_store, last_user_message, pending_exc>>
    /\ UNCHANGED loopVars
    /\ UNCHANGED restVars
    /\ suspended' = (events' # events)

LogEntry(call, args, result) ==
    [id |-> call.id, name |-> call.name, text |-> call.arguments, arguments |-> args,
     raised |-> result.raised, success |-> result.success,
     result |-> result.result, error_message |-> result.error_message,
     content |-> ToolResponseContent(result)]

\* mutant: a failed result is also yielded to the client as an error event
ExecuteToolCallSurfaced ==
    /\ Resumable
    /\ pc = "exec"
    /\ LET call == tool_calls_buffer[tool_index]
              args == ToolArgs(ai_provider, call)
              handler_raises == HandlerRaises(call.name, args)
              result == execute_tool(call.name, args, handler_raises)
              last == tool_index = Len(tool_calls_buffer)
              results == Append(tool_results, ToolResultBlock(call, result))
          IN  /\ ~result.raised
              /\ budget' = budget
              /\ exec_log' = Append(exec_log, LogEntry(call, args, result))
              /\ events' = IF result.success THEN events
                            ELSE Append(events, ErrorEvent(result.error_message, "internal"))
              /\ IF ai_provider = "anthropic"
                 THEN /\ tool_results' = results
                      /\ current_messages' =
                            IF last
                            THEN Append(current_messages, Msg("user", <<>>, <<>>, "", results))
                            ELSE current_messages
                 ELSE /\ current_messages' = Append(current_messages, ToolResponse(call, result))
                      /\ UNCHANGED tool_results
              /\ tool_index' = tool_index + 1
              /\ db' = DbAfterTool(call.name, args)
              /\ pc' = IF last THEN "loop" ELSE "tools"
    /\ UNCHANGED <<ai_provider, vector_store, last_user_message, iteration, content_buffer,
                   tool_calls_buffer, current_tool_call, pending_exc,
                   provider_calls, delivered, opened, tool_turns, provider_exc>>
    /\ UNCHANGED <<wrapperVars, client, sharedVars>>
    /\ UNCHANGED text_deltas
    /\ suspended' = (events' # events)

\* chat.py:286-296 / 429-443: execute the call and fold its result
ExecuteToolCall ==
    /\ Resumable
    /\ pc = "exec"
    /\ LET call == tool_calls_buffer[tool_index]
              args == ToolArgs(ai_provider, call)
              handler_raises == HandlerRaises(call.name, args)
              result == execute_tool(call.name, args, handler_raises)
              last == tool_index = Len(tool_calls_buffer)
              results == Append(tool_results, ToolResultBlock(call, result))
          IN  /\ ~result.raised
              /\ budget' = budget
              /\ exec_log' = Append(exec_log, LogEntry(call, args, result))
              /\ IF ai_provider = "anthropic"
                 THEN /\ tool_results' = results
                      /\ current_messages' =
                            IF last
                            THEN Append(current_messages, Msg("user", <<>>, <<>>, "", results))
                            ELSE current_messages
                 ELSE /\ current_messages' = Append(current_messages, ToolResponse(call, result))
                      /\ UNCHANGED tool_results
              /\ tool_index' = tool_index + 1
              /\ db' = DbAfterTool(call.name, args)
              /\ pc' = IF last THEN "loop" ELSE "tools"
    /\ UNCHANGED <<ai_provider, vector_store, last_user_message, iteration, content_buffer,
                   tool_calls_buffer, current_tool_call, events, pending_exc,
                   provider_calls, delivered, opened, tool_turns, provider_exc>>
    /\ UNCHANGED <<wrapperVars, client, sharedVars>>
    /\ UNCHANGED text_deltas
    /\ suspended' = (events' # events)

\* chat.py:288 / 431 with 298-304 / 445-451: execute_tool itself raises
ExecuteToolRaises ==
    /\ Resumable
    /\ pc = "exec"
    /\ LET call == tool_calls_buffer[tool_index]
              args == ToolArgs(ai_provider, call)
              handler_raises == HandlerRaises(call.name, args)
              result == execute_tool(call.name, args, handler_raises)
          IN  /\ result.raised
              /\ budget' = budget
              /\ exec_log' = Append(exec_log, LogEntry(call, args, result))
              /\ events' = Append(events, ExceptionEvent(result.exc))
    /\ pc' = "save"
    /\ UNCHANGED <<ai_provider, vector_store, last_user_message, iteration, current_messages,
                   content_buffer, tool_calls_buffer, current_tool_call, tool_index,
                   tool_results, pending_exc, provider_calls, delivered, opened,
                   tool_turns, provider_exc>>
    /\ UNCHANGED restVars
    /\ UNCHANGED text_deltas
    /\ suspended' = (events' # events)

-----------------------------------------------------------------------------
(* chat_endpoint after the loop, chat.py:165-180, and event_stream's handler *)

\* chat.py:166-174: a call of memory_manager.add_interaction, made when
\* events had been yielded so far
Interaction(yielded, raised) == [yielded |-> yielded, raised |-> raised]

\* mutant: the interaction is recorded whatever the last user message is
AddInteractionAlways(message) == TRUE

\* chat.py:166, if memory_manager and last_user_message: chat_stream has
\* refused the request when there is no memory manager (main.py:220-221)
AddInteraction(message) == message # ""

\* chat.py:165-180: the interaction is saved, then done is yielded
Finish ==
    /\ Resumable
    /\ pc = "save"
    /\ events' = Append(events, DoneEvent)
    /\ interactions' = IF AddInteraction(last_user_message)
                       THEN Append(interactions, Interaction(Len(events), FALSE))
                       ELSE interactions
    /\ pc' = "closed"
    /\ UNCHANGED <<ai_provider, vector_store, last_user_message, pending_exc>>
    /\ UNCHANGED loopVars
    /\ UNCHANGED <<wrapperVars, db, client, serverVars>>
    /\ suspended' = (events' # events)

\* mutant: the interaction is saved after done has been yielded
SaveMemoryFailsAfterDone ==
    /\ Resumable
    /\ pc = "save"
    /\ AddInteraction(last_user_message)
    /\ events' = Append(events, DoneEvent)
    /\ interactions' = Append(interactions, Interaction(Len(events), TRUE))
    /\ pending_exc' = OperationalError
    /\ pc' = "raised"
    /\ UNCHANGED <<ai_provider, vector_store, last_user_message>>
    /\ UNCHANGED loopVars
    /\ UNCHANGED <<wrapperVars, db, client, serverVars>>
    /\ suspended' = (events' # events)

\* chat.py:166-174: add_interaction raises (memory.py:210-227 writes to sqlite)
SaveMemoryFails ==
    /\ Resumable
    /\ pc = "save"
    /\ AddInteraction(last_user_message)
    /\ interactions' = Append(interactions, Interaction(Len(events), TRUE))
    /\ pending_exc' = OperationalError
    /\ pc' = "raised"
    /\ UNCHANGED <<ai_provider, vector_store, last_user_message, events>>
    /\ UNCHANGED loopVars
    /\ UNCHANGED <<wrapperVars, db, client, serverVars>>
    /\ suspended' = (events' # events)

\* main.py:262-275: an exception left chat_endpoint
EventStreamExcept ==
    /\ Resumable
    /\ pc = "raised"
    /\ events' = events \o <<ExceptionEvent(pending_exc), DoneEvent>>
    /\ pc' = "closed"
    /\ UNCHANGED <<ai_provider, vector_store, last_user_message, pending_exc>>
    /\ UNCHANGED loopVars
    /\ UNCHANGED restVars
    /\ suspended' = (events' # events)

-----------------------------------------------------------------------------

Next ==
    \/ ContextReadFails
    \/ SafetyBlock
    \/ NotConfiguredReply
    \/ ClientInitFails
    \/ LoopStart
    \/ ProviderCall
    \/ CapReached
    \/ StreamChunk
    \/ ProviderFails
    \/ FinalAnswer
    \/ AssistantTurn
    \/ AnthropicInputFails
    \/ EmitToolCall
    \/ ExecuteToolCall
    \/ ExecuteToolRaises
    \/ Finish
    \/ SaveMemoryFails
    \/ EventStreamExcept

Spec == Init /\ [][Next]_vars

\* the requests of Spec, and those whose message is empty once normalised
MemorySpec == MemoryInit /\ [][Next]_vars

-----------------------------------------------------------------------------
(* A request whose provider call fails with any exception *)

\* chat.py:298-304 / 445-451: the provider call raises, whatever the
\* exception's class and message
ProviderRaises ==
    /\ Resumable
    /\ pc = "streaming"
    /\ \E e \in AnyException :
          /\ events' = Append(events, ExceptionEvent(e))
          /\ provider_exc' = e
    /\ pc' = "save"
    /\ UNCHANGED <<ai_provider, vector_store, last_user_message, iteration, current_messages,
                   content_buffer, tool_calls_buffer, current_tool_call, tool_index,
                   tool_results, pending_exc, provider_calls, exec_log, delivered, opened,
                   tool_turns, budget>>
    /\ UNCHANGED restVars
    /\ UNCHANGED text_deltas
    /\ suspended' = (events' # events)

ClassifyNext ==
    \/ LoopStart
    \/ ProviderCall
    \/ ProviderRaises
    \/ Finish

ClassifySpec == Init /\ [][ClassifyNext]_vars

-----------------------------------------------------------------------------
(* A request whose client may disconnect *)

\* the client closes the connection, at any moment of the request
ClientDisconnects ==
    /\ pc \notin {"closed", "cancelled"}
    /\ ~client.gone
    /\ client' = [gone |-> TRUE, provider_calls |-> provider_calls,
                  executed |-> Len(exec_log), received |-> Len(events)]
    /\ UNCHANGED <<ai_provider, vector_store, last_user_message, pc, events, pending_exc,
                   wrapperVars, db, suspended, sharedVars>>
    /\ UNCHANGED loopVars

\* main.py:278-286: the server stops iterating event_stream once it has
\* seen the disconnect; the generator is never resumed from its yield
StreamCancelled ==
    /\ pc \notin {"closed", "cancelled"}
    /\ client.gone
    /\ suspended
    /\ pc' = "cancelled"
    /\ UNCHANGED <<ai_provider, vector_store, last_user_message, events, pending_exc,
                   restVars, suspended>>
    /\ UNCHANGED loopVars

DisconnectNext ==
    \/ Next
    \/ ClientDisconnects
    \/ StreamCancelled

DisconnectSpec == FairInit /\ [][DisconnectNext]_vars

\* the server keeps iterating the response generator, and the provider's
\* stream and every tool call return: no step is postponed forever
FairSpec == FairInit /\ [][Next]_vars /\ WF_vars(Next)

-----------------------------------------------------------------------------
(* The retry wrappers stream_openai / stream_anthropic, chat.py:458-555 *)

WrapperProviders == {"openai", "anthropic"}

\* chat.py:503 / 555
FailedAfterRetries(provider, e) ==
    ErrorEvent(<<IF provider = "openai" THEN "OpenAI failed after retries: "
                 ELSE "Anthropic failed after retries: ", e.text>>,
               IF e # NoExc THEN classify_error(e) ELSE "internal")

\* mutant: an auth failure is not retried
ShouldRetryUnlessAuth(n, e) == n < LLM_MAX_RETRIES /\ classify_error(e) # "auth"

\* chat.py:498 / 550
ShouldRetry(n, e) == n < LLM_MAX_RETRIES

\* mutant: the attempts are counted from 1
BackoffFromOne(n) == 2 ^ (n + 1)

\* chat.py:499 / 551, asyncio.sleep(2 ** attempt): the seconds waited after
\* attempt n has failed
Backoff(n) == 2 ^ n

\* chat.py:459-467 / 508-521: a call of the wrapper, before its first attempt
WrapperInit ==
    /\ ai_provider \in WrapperProviders
    /\ vector_store = "ok"
    /\ last_user_message \in UserMessages
    /\ pc = "attempting"
    /\ iteration = 0
    /\ current_messages = <<>>
    /\ content_buffer = <<>>
    /\ tool_calls_buffer = <<>>
    /\ current_tool_call = NoCall
    /\ tool_index = 0
    /\ tool_results = <<>>
    /\ events = <<>>
    /\ pending_exc = NoExc
    /\ provider_calls = 0
    /\ exec_log = <<>>
    /\ delivered = [c \in CallIds |-> <<>>]
    /\ opened = {}
    /\ tool_turns = 0
    /\ provider_exc = NoExc
    /\ budget = 0
    /\ text_deltas = <<>>
    /\ attempt = 0
    /\ last_error = NoExc
    /\ attempt_log = <<>>
    /\ sleeps = <<>>
    /\ db = [writable |-> TRUE, activities |-> 0, schedules |-> {}]
    /\ client = Connected
    /\ suspended = FALSE
    /\ tools = RegisteredTools
    /\ heap = <<>>
    /\ requests = NoRequests
    /\ cookies = NoCookies
    /\ uuids = 0
    /\ limiters = NoLimiterEvents
    /\ responses = NoResponses
    /\ now = 0
    /\ limiter_events = NoEvents
    /\ allow_log = <<>>
    /\ interactions = <<>>

wrapperFrame == <<ai_provider, vector_store, last_user_message, pending_exc, db, client,
                  suspended, sharedVars>>

\* chat.py:476-481 / 530-533: a chunk of the attempt's stream; the OpenAI
\* wrapper skips a chunk without content
WrapperContent ==
    /\ pc = "attempting"
    /\ Len(text_deltas) < MaxWrapperContent
    /\ \E text \in Texts \cup {""} :
          /\ events' = IF ai_provider = "openai" /\ text = ""
                       THEN events
                       ELSE Append(events, ContentEvent(text))
          /\ text_deltas' = Append(text_deltas, [turn |-> attempt, text |-> text,
                                                 after |-> {}])
    /\ UNCHANGED <<pc, attempt, last_error, attempt_log, sleeps>>
    /\ UNCHANGED wrapperFrame
    /\ UNCHANGED <<iteration, current_messages, content_buffer, tool_calls_buffer,
                   current_tool_call, tool_index, tool_results, provider_calls,
                   exec_log, delivered, opened, tool_turns, provider_exc, budget>>

\* chat.py:482 / 534: the attempt's stream ended
WrapperReturn ==
    /\ pc = "attempting"
    /\ pc' = "returned"
    /\ attempt_log' = Append(attempt_log, NoExc)
    /\ UNCHANGED <<events, attempt, last_error, sleeps>>
    /\ UNCHANGED wrapperFrame
    /\ UNCHANGED loopVars

\* chat.py:484-500 / 536-552: the attempt raised and another one follows,
\* after the sleep
WrapperRetry ==
    /\ pc = "attempting"
    /\ \E e \in WrapperExceptions :
          /\ ShouldRetry(attempt, e)
          /\ last_error' = e
          /\ attempt_log' = Append(attempt_log, e)
    /\ sleeps' = Append(sleeps, Backoff(attempt))
    /\ attempt' = attempt + 1
    /\ UNCHANGED <<pc, events>>
    /\ UNCHANGED wrapperFrame
    /\ UNCHANGED loopVars

\* chat.py:484-503 / 536-555: the attempt raised and was the last one
WrapperGiveUp ==
    /\ pc = "attempting"
    /\ \E e \in WrapperExceptions :
          /\ ~ShouldRetry(attempt, e)
          /\ last_error' = e
          /\ attempt_log' = Append(attempt_log, e)
          /\ events' = Append(events, FailedAfterRetries(ai_provider, e))
    /\ pc' = "returned"
    /\ UNCHANGED <<attempt, sleeps>>
    /\ UNCHANGED wrapperFrame
    /\ UNCHANGED loopVars

WrapperNext ==
    \/ WrapperContent
    \/ WrapperReturn
    \/ WrapperRetry
    \/ WrapperGiveUp

WrapperSpec == WrapperInit /\ [][WrapperNext]_vars

-----------------------------------------------------------------------------
(* One round of tool calls, chat.py:268-296 / 413-443, for every tool, every  *)
(* argument text and every state of the stores                                *)

\* the argument texts of a finalized call: empty, malformed, an object with
\* or without the handler's parameters, and JSON that is not an object
ArgTexts ==
    {<<>>, <<"{\"query\":">>, <<"{\"query\": \"art\"}">>, <<SaveArgs>>,
     <<"[1]">>, <<"1">>, <<"\"art\"">>}

RoundCalls ==
    [id : {"call_A"}, name : RegisteredTools \cup {"no_such_tool"}, arguments : ArgTexts]

SecondCall == [id |-> "call_B", name |-> "search_activities",
               arguments |-> <<"{\"query\": \"art\"}">>]

\* the loop after a provider turn that finalized the calls of round (the
\* state AssistantTurn leaves)
RoundInit ==
    /\ ai_provider \in WrapperProviders
    /\ vector_store \in VectorStores \cup {NoVectorStore}
    /\ db \in [writable : BOOLEAN, activities : {0}, schedules : {{}}]
    /\ last_user_message = "plan a day"
    /\ pc = "tools"
    /\ iteration = 1
    /\ provider_calls = 1
    /\ tool_turns = 1
    /\ \E call \in RoundCalls : \E round \in {<<call>>, <<call, SecondCall>>} :
          /\ ai_provider = "anthropic" =>
                \A i \in 1..Len(round) : ~AnthropicInputRaises(round[i])
          /\ tool_calls_buffer = round
          /\ current_tool_call =
                IF ai_provider = "anthropic" THEN NoCall ELSE round[Len(round)]
          /\ current_messages =
                Append(InitialLoopMessages(ai_provider, BuildMessages(last_user_message)),
                       IF ai_provider = "anthropic"
                       THEN AnthropicAssistantMessage(<<>>, round)
                       ELSE OpenAIAssistantMessage(<<>>, round))
          /\ delivered = [c \in CallIds |->
                            IF \E i \in 1..Len(round) : round[i].id = c
                            THEN (CHOOSE r \in {round[i] : i \in 1..Len(round)} : r.id = c).arguments
                            ELSE <<>>]
          /\ opened = {round[i].id : i \in 1..Len(round)}
    /\ content_buffer = <<>>
    /\ tool_index = 1
    /\ tool_results = <<>>
    /\ events = <<>>
    /\ pending_exc = NoExc
    /\ exec_log = <<>>
    /\ provider_exc = NoExc
    /\ budget = 0
    /\ text_deltas = <<>>
    /\ attempt = 0
    /\ last_error = NoExc
    /\ attempt_log = <<>>
    /\ sleeps = <<>>
    /\ client = Connected
    /\ suspended = FALSE
    /\ tools = RegisteredTools
    /\ heap = <<>>
    /\ requests = NoRequests
    /\ cookies = NoCookies
    /\ uuids = 0
    /\ limiters = NoLimiterEvents
    /\ responses = NoResponses
    /\ now = 0
    /\ limiter_events = NoEvents
    /\ allow_log = <<>>
    /\ interactions = <<>>

RoundNext ==
    \/ EmitToolCall
    \/ ExecuteToolCall
    \/ ExecuteToolRaises

RoundSpec == RoundInit /\ [][RoundNext]_vars

-----------------------------------------------------------------------------
(* Two chat requests of one process, interleaved at their suspension points. *)
(* A message list is a Python list object: heap[id] is its content, and a     *)
(* request holds references: messages (chat.py:117) and current (chat.py:201, *)
(* or claude_messages, chat.py:334).  A message carries the request that      *)
(* built or appended it.                                                      *)

singleVars == <<ai_provider, vector_store, last_user_message, pc, events, pending_exc,
                wrapperVars, db, client, suspended, apiVars, limiterVars, interactions>>

SharedInit ==
    /\ ai_provider \in WrapperProviders
    /\ vector_store = "ok"
    /\ last_user_message = "plan a day"
    /\ pc = "serving"
    /\ iteration = 0
    /\ current_messages = <<>>
    /\ content_buffer = <<>>
    /\ tool_calls_buffer = <<>>
    /\ current_tool_call = NoCall
    /\ tool_index = 0
    /\ tool_results = <<>>
    /\ events = <<>>
    /\ pending_exc = NoExc
    /\ provider_calls = 0
    /\ exec_log = <<>>
    /\ delivered = [c \in CallIds |-> <<>>]
    /\ opened = {}
    /\ tool_turns = 0
    /\ provider_exc = NoExc
    /\ budget = 0
    /\ text_deltas = <<>>
    /\ attempt = 0
    /\ last_error = NoExc
    /\ attempt_log = <<>>
    /\ sleeps = <<>>
    /\ db = [writable |-> TRUE, activities |-> 0, schedules |-> {}]
    /\ client = Connected
    /\ suspended = FALSE
    /\ tools = RegisteredTools
    /\ heap = <<>>
    /\ requests = NoRequests
    /\ cookies = NoCookies
    /\ uuids = 0
    /\ limiters = NoLimiterEvents
    /\ responses = NoResponses
    /\ now = 0
    /\ limiter_events = NoEvents
    /\ allow_log = <<>>
    /\ interactions = <<>>

\* chat.py:117-119: the system message and the request's messages
RequestMessages(r) ==
    <<[role |-> "system", request |-> r], [role |-> "user", request |-> r]>>

\* chat.py:117-119: chat_endpoint builds the list it hands to the loop
RequestBuildsMessages(r) ==
    /\ requests[r].pc = "idle"
    /\ heap' = Append(heap, RequestMessages(r))
    /\ requests' = [requests EXCEPT ![r].pc = "built", ![r].messages = Len(heap) + 1]
    /\ UNCHANGED <<singleVars, tools>>
    /\ UNCHANGED loopVars

\* chat.py:201: messages.copy(); chat.py:333-340: a new list of the
\* messages that are not the system message
LoopCopy(list) ==
    IF ai_provider = "anthropic"
    THEN SelectSeq(list, LAMBDA m : m.role # "system")
    ELSE list

\* mutant: the loop works on the caller's list itself
RequestCopiesMessagesAliased(r) ==
    /\ requests[r].pc = "built"
    /\ heap' = heap
    /\ requests' = [requests EXCEPT ![r].pc = "loop", ![r].current = requests[r].messages]
    /\ UNCHANGED <<singleVars, tools>>
    /\ UNCHANGED loopVars

\* chat.py:200-201 / 333-342: the loop starts on a list of its own
RequestCopiesMessages(r) ==
    /\ requests[r].pc = "built"
    /\ heap' = Append(heap, LoopCopy(heap[requests[r].messages]))
    /\ requests' = [requests EXCEPT ![r].pc = "loop", ![r].current = Len(heap) + 1]
    /\ UNCHANGED <<singleVars, tools>>
    /\ UNCHANGED loopVars

\* chat.py:203-214 / 344-354: the provider is called with the loop's list
RequestCallsProvider(r) ==
    /\ requests[r].pc = "loop"
    /\ requests[r].iteration < MaxSharedRounds
    /\ requests' = [requests EXCEPT ![r].pc = "streaming",
                                    ![r].iteration = @ + 1,
                                    ![r].sent = Append(@, heap[requests[r].current])]
    /\ UNCHANGED <<singleVars, tools, heap>>
    /\ UNCHANGED loopVars

\* chat.py:260-266 / 395-411: the assistant message of a tool-calling turn
RequestAppendsAssistant(r) ==
    /\ requests[r].pc = "streaming"
    /\ heap' = [heap EXCEPT ![requests[r].current] =
                    Append(@, [role |-> "assistant", request |-> r])]
    /\ requests' = [requests EXCEPT ![r].pc = "exec"]
    /\ UNCHANGED <<singleVars, tools>>
    /\ UNCHANGED loopVars

\* chat.py:286-296 / 429-443 with tools.py:391, 403: execute_tool reads the
\* registry, and the result is appended to the loop's list
RequestFoldsResult(r) ==
    /\ requests[r].pc = "exec"
    /\ \E tool_name \in ToolNames :
          heap' = [heap EXCEPT ![requests[r].current] =
                      Append(@, [role |-> IF tool_name \in tools THEN "tool" ELSE "tool_error",
                                 request |-> r])]
    /\ requests' = [requests EXCEPT ![r].pc = "loop"]
    /\ UNCHANGED <<singleVars, tools>>
    /\ UNCHANGED loopVars

\* chat.py:256-258 / 391-393, and 306-307 / 453-454: the loop returns
RequestReturns(r) ==
    /\ \/ requests[r].pc = "streaming"
       \/ requests[r].pc = "loop" /\ requests[r].iteration = MaxSharedRounds
    /\ requests' = [requests EXCEPT ![r].pc = "done"]
    /\ UNCHANGED <<singleVars, tools, heap>>
    /\ UNCHANGED loopVars

SharedNext ==
    \/ \E r \in Requests : RequestBuildsMessages(r)
    \/ \E r \in Requests : RequestCopiesMessages(r)
    \/ \E r \in Requests : RequestCallsProvider(r)
    \/ \E r \in Requests : RequestAppendsAssistant(r)
    \/ \E r \in Requests : RequestFoldsResult(r)
    \/ \E r \in Requests : RequestReturns(r)

SharedSpec == SharedInit /\ [][SharedNext]_vars

-----------------------------------------------------------------------------
(* The schedule endpoints, main.py:478-674, with the session cookie of       *)
(* main.py:179-184 and chat_stream's set_cookie, main.py:286-294.  A handler *)
(* has no await between its statements: it runs as one step                  *)

\* a server that answers requests of the schedule endpoints
ScheduleInit ==
    /\ ai_provider \in WrapperProviders
    /\ vector_store = "ok"
    /\ last_user_message = "plan a day"
    /\ pc = "api"
    /\ iteration = 0
    /\ current_messages = <<>>
    /\ content_buffer = <<>>
    /\ tool_calls_buffer = <<>>
    /\ current_tool_call = NoCall
    /\ tool_index = 0
    /\ tool_results = <<>>
    /\ events = <<>>
    /\ pending_exc = NoExc
    /\ provider_calls = 0
    /\ exec_log = <<>>
    /\ delivered = [c \in CallIds |-> <<>>]
    /\ opened = {}
    /\ tool_turns = 0
    /\ provider_exc = NoExc
    /\ budget = 0
    /\ text_deltas = <<>>
    /\ attempt = 0
    /\ last_error = NoExc
    /\ attempt_log = <<>>
    /\ sleeps = <<>>
    /\ db = [writable |-> TRUE, activities |-> 0, schedules |-> {}]
    /\ client = Connected
    /\ suspended = FALSE
    /\ tools = RegisteredTools
    /\ heap = <<>>
    /\ requests = NoRequests
    /\ cookies = NoCookies
    /\ uuids = 0
    /\ limiters = NoLimiterEvents
    /\ responses = NoResponses
    /\ now = 0
    /\ limiter_events = NoEvents
    /\ allow_log = <<>>
    /\ interactions = <<>>

\* what the schedule endpoints leave alone
chatVars == <<ai_provider, vector_store, last_user_message, pc, events, pending_exc,
              wrapperVars, client, suspended, tools, heap, requests, loopVars,
              limiterVars, interactions>>

\* main.py:179-184: the cookie's value, or a new uuid for a request without one
\* (then the second component of the pair is True)
get_or_create_session_user_id(c) ==
    IF cookies[c] # NoCookie
    THEN [user_id |-> cookies[c], is_new |-> FALSE]
    ELSE [user_id |-> uuids + 1, is_new |-> TRUE]

\* the uuid4() values a request of client c draws for its session
SessionUuids(c) == IF cookies[c] # NoCookie THEN 0 ELSE 1

\* safety.py:55-68, SlidingWindowRateLimiter.allow: whether the key has room
\* in the window
allow(limiter, key) == limiters[limiter][key] < MaxRequestsPerWindow

\* safety.py:67, q.append(now)
Recorded(limiter, key) ==
    [limiters EXCEPT ![limiter][key] = @ + 1]

\* mutant: the user id is left out of the WHERE clause
RowsOfAnyUser(schedule_id, user_id) ==
    {row \in db.schedules : row.id = schedule_id}

\* the rows of the schedules table with this id and this user
\* (main.py:565, 660: WHERE id = ? AND user_id = ?)
Rows(schedule_id, user_id) ==
    {row \in db.schedules : row.id = schedule_id /\ row.user_id = user_id}

\* the ids a client may ask for: the ones save_schedule has returned, and one
\* that was never issued
KnownIds == {x.id : x \in responses.returned} \cup {MaxUuids + 1}

\* main.py:208-296, chat_stream for a client without the cookie: the response
\* sets kcp_sid to the new user id
ChatSetsCookie(c) ==
    /\ pc = "api"
    /\ cookies[c] = NoCookie
    /\ uuids < MaxUuids
    /\ cookies' = [cookies EXCEPT ![c] = get_or_create_session_user_id(c).user_id]
    /\ uuids' = uuids + 1
    /\ UNCHANGED <<limiters, responses, db, chatVars>>

\* safety.py:60-61: time passes and the oldest event of a key leaves the window
WindowSlides(limiter, key) ==
    /\ pc = "api"
    /\ limiters[limiter][key] > 0
    /\ limiters' = [limiters EXCEPT ![limiter][key] = @ - 1]
    /\ UNCHANGED <<cookies, uuids, responses, db, chatVars>>

\* main.py:478-551, save_schedule: 429 from the limiter, else a row with a
\* new id under the request's user id; the response sets no cookie
SaveSchedule(c) ==
    /\ pc = "api"
    /\ uuids + SessionUuids(c) <= MaxUuids
    /\ LET trusted_user_id == get_or_create_session_user_id(c).user_id
           schedule_id == uuids + SessionUuids(c) + 1
       IN  IF ~allow("schedule_save", trusted_user_id)
           THEN /\ responses' = [responses EXCEPT
                       !.last = Response("save", c, trusted_user_id, 0, 429, 0)]
                /\ uuids' = uuids + SessionUuids(c)
                /\ UNCHANGED <<limiters, db>>
           ELSE /\ schedule_id <= MaxUuids
                /\ limiters' = Recorded("schedule_save", trusted_user_id)
                /\ uuids' = schedule_id
                /\ db' = [db EXCEPT !.schedules =
                             @ \cup {[id |-> schedule_id, user_id |-> trusted_user_id]}]
                /\ responses' = [responses EXCEPT
                       !.last = Response("save", c, trusted_user_id, schedule_id, 200, 0),
                       !.returned = @ \cup {[id |-> schedule_id, client |-> c]}]
    /\ UNCHANGED <<cookies, chatVars>>

\* main.py:554-581, get_schedule: the row of this id and this user, or 404
GetSchedule(c, schedule_id) ==
    /\ pc = "api"
    /\ uuids + SessionUuids(c) <= MaxUuids
    /\ LET trusted_user_id == get_or_create_session_user_id(c).user_id
       IN  responses' = [responses EXCEPT
               !.last = Response("get", c, trusted_user_id, schedule_id,
                                 IF Rows(schedule_id, trusted_user_id) = {} THEN 404 ELSE 200,
                                 0)]
    /\ uuids' = uuids + SessionUuids(c)
    /\ UNCHANGED <<cookies, limiters, db, chatVars>>

\* main.py:584-633, list_schedules: total is the number of the user's rows
ListSchedules(c) ==
    /\ pc = "api"
    /\ uuids + SessionUuids(c) <= MaxUuids
    /\ LET trusted_user_id == get_or_create_session_user_id(c).user_id
       IN  responses' = [responses EXCEPT
               !.last = Response("list", c, trusted_user_id, 0, 200,
                                 Cardinality({row \in db.schedules :
                                                 row.user_id = trusted_user_id}))]
    /\ uuids' = uuids + SessionUuids(c)
    /\ UNCHANGED <<cookies, limiters, db, chatVars>>

\* main.py:636-674, delete_schedule: 429 from the limiter, 404 without a row
\* of this id and this user, else the row is deleted
DeleteSchedule(c, schedule_id) ==
    /\ pc = "api"
    /\ uuids + SessionUuids(c) <= MaxUuids
    /\ LET trusted_user_id == get_or_create_session_user_id(c).user_id
           owner == [id |-> schedule_id, client |-> c] \in responses.returned
       IN  IF ~allow("delete_schedule", trusted_user_id)
           THEN /\ responses' = [responses EXCEPT
                       !.last = Response("delete", c, trusted_user_id, schedule_id, 429, 0)]
                /\ UNCHANGED <<limiters, db>>
           ELSE /\ limiters' = Recorded("delete_schedule", trusted_user_id)
                /\ IF Rows(schedule_id, trusted_user_id) = {}
                   THEN /\ responses' = [responses EXCEPT
                               !.last = Response("delete", c, trusted_user_id,
                                                 schedule_id, 404, 0),
                               !.delete_called = IF owner THEN @ \cup {schedule_id} ELSE @]
                        /\ UNCHANGED db
                   ELSE /\ db' = [db EXCEPT !.schedules =
                                     @ \ Rows(schedule_id, trusted_user_id)]
                        /\ responses' = [responses EXCEPT
                               !.last = Response("delete", c, trusted_user_id,
                                                 schedule_id, 200, 0),
                               !.delete_called = IF owner THEN @ \cup {schedule_id} ELSE @,
                               !.deleted = Append(@, schedule_id)]
    /\ uuids' = uuids + SessionUuids(c)
    /\ UNCHANGED <<cookies, chatVars>>

ScheduleNext ==
    \/ \E c \in Clients : ChatSetsCookie(c)
    \/ \E limiter \in LimiterNames, key \in Uuids : WindowSlides(limiter, key)
    \/ \E c \in Clients : SaveSchedule(c)
    \/ \E c \in Clients, schedule_id \in KnownIds : GetSchedule(c, schedule_id)
    \/ \E c \in Clients : ListSchedules(c)
    \/ \E c \in Clients, schedule_id \in KnownIds : DeleteSchedule(c, schedule_id)

ScheduleSpec == ScheduleInit /\ [][ScheduleNext]_vars

-----------------------------------------------------------------------------
(* One SlidingWindowRateLimiter, safety.py:47-68, under a clock.  Its keys   *)
(* are the user ids of chat_stream, save_schedule and delete_schedule        *)
(* (main.py:226, 487, 645)                                                   *)

\* window_seconds, in ticks
window == WindowSeconds * TicksPerSecond

\* safety.py:58-61: the timestamps older than the window leave the deque,
\* from the left
RECURSIVE Expire(_, _)
Expire(q, t) ==
    IF q # <<>> /\ Head(q) < t - window THEN Expire(Tail(q), t) ELSE q

\* mutant: the deque is full only beyond max_requests
FullBeyondMax(q) == Len(q) > MaxRequestsPerWindow

\* safety.py:63, len(q) >= self.max_requests
Full(q) == Len(q) >= MaxRequestsPerWindow

\* safety.py:64, max(1, int(self.window_seconds - (now - q[0]))), in seconds
RetryAfter(q, t) ==
    LET whole == (window - (t - Head(q))) \div TicksPerSecond
    IN  IF whole > 1 THEN whole ELSE 1

\* mutant: a denied call is recorded too
AllowAnswerRecordingDenied(q, t) ==
    LET live == Expire(q, t)
    IN  IF Full(live)
        THEN [allowed |-> FALSE, retry_after |-> RetryAfter(live, t), q |-> Append(live, t)]
        ELSE [allowed |-> TRUE, retry_after |-> 0, q |-> Append(live, t)]

\* safety.py:55-68, allow at instant t on a key whose deque is q: the answer
\* and the deque afterwards
AllowAnswer(q, t) ==
    LET live == Expire(q, t)
    IN  IF Full(live)
        THEN [allowed |-> FALSE, retry_after |-> RetryAfter(live, t), q |-> live]
        ELSE [allowed |-> TRUE, retry_after |-> 0, q |-> Append(live, t)]

\* what the limiter leaves alone
limiterFrame == <<ai_provider, vector_store, last_user_message, pc, events, pending_exc,
                  wrapperVars, db, client, suspended, tools, heap, requests, apiVars,
                  interactions, loopVars>>

\* time passes
Tick ==
    /\ pc = "api"
    /\ now < MaxTime
    /\ now' = now + 1
    /\ UNCHANGED <<limiter_events, allow_log>>
    /\ UNCHANGED limiterFrame

\* safety.py:55-68: a request of a key reaches the limiter
Allow(key) ==
    /\ pc = "api"
    /\ Len(allow_log) < MaxAllowCalls
    /\ LET answer == AllowAnswer(limiter_events[key], now)
       IN  /\ limiter_events' = [limiter_events EXCEPT ![key] = answer.q]
           /\ allow_log' = Append(allow_log, [key |-> key, t |-> now,
                                              allowed |-> answer.allowed,
                                              retry_after |-> answer.retry_after])
    /\ UNCHANGED now
    /\ UNCHANGED limiterFrame

LimiterNext ==
    \/ Tick
    \/ \E key \in LimiterKeys : Allow(key)

LimiterSpec == ScheduleInit /\ [][LimiterNext]_vars

-----------------------------------------------------------------------------
(* The check_weather tool, tools.py:428-494, called through execute_tool *)

\* an argument the model left out (None), or gave as an empty string
NotGiven == ""

Locations == {"Detroit, MI"}

\* a date the lookup can parse, and one it cannot
Dates == {"2026-07-04", "tomorrow"}

DefaultLocation == "Lansing, MI"

\* datetime.now().strftime("%Y-%m-%d")
Today == "2026-07-01"

\* models.py:54-67, the fields of WeatherData the tool reads
WeatherData(location, date, temperature_f, conditions, outdoor_suitable) ==
    [location |-> location, date |-> date, temperature_f |-> temperature_f,
     conditions |-> conditions, outdoor_suitable |-> outdoor_suitable]

\* the lookup raised: the cache's sqlite file is locked (weather.py:277), or
\* the date is not YYYY-MM-DD and the mock data is built (weather.py:231)
LookupRaised == [raised |-> TRUE, text |-> "lookup failed"]

\* weather.py:259-343: what check_weather answers for a location and a date
Lookups(location, date) ==
    {LookupRaised}
    \cup {WeatherData(location, IF date = NotGiven THEN Today ELSE date, t, c, o) :
            t \in {20, 72, 95}, c \in {"sunny", "rain"}, o \in BOOLEAN}

\* a local variable that was never assigned
Unbound == [unbound |-> TRUE]

UnboundLocalError ==
    Exc("UnboundLocalError", {}, {},
        "cannot access local variable 'weather' where it is not associated with a value")

\* tools.py:447-460: the dictionary built by the except clause
FallbackWeather(location, date) ==
    WeatherData(IF location = NotGiven THEN DefaultLocation ELSE location,
                IF date = NotGiven THEN Today ELSE date, 72, "sunny", TRUE)

\* tools.py:463-477
PlanningNote(weather) ==
    IF weather.outdoor_suitable
    THEN IF weather.conditions = "sunny"
         THEN <<"Great day for outdoor activities!">>
         ELSE <<"Outdoor activities are suitable today.">>
    ELSE IF weather.conditions \in {"rain", "snow", "storm"}
    THEN <<"Indoor activities recommended due to ", weather.conditions, ".">>
    ELSE IF weather.temperature_f < 32
    THEN <<"Very cold - keep activities indoors or brief outdoor periods.">>
    ELSE IF weather.temperature_f > 90
    THEN <<"Very hot - stay hydrated and prefer indoor/cool activities.">>
    ELSE <<"Indoor activities recommended for today.">>

\* tools.py:479-493: the dictionary returned for a weather
WeatherReply(weather) ==
    [location |-> weather.location, date |-> weather.date,
     temperature |-> weather.temperature_f, conditions |-> weather.conditions,
     outdoor_suitable |-> weather.outdoor_suitable,
     planning_note |-> PlanningNote(weather)]

\* result={} of a failed ToolResult (tools.py:418), with the fields of a reply
NoReply == [location |-> "", date |-> "", temperature |-> 0, conditions |-> "",
            outdoor_suitable |-> FALSE, planning_note |-> <<>>]

\* tools.py:439-493.  The try assigns weather and weather_dict; the except
\* clause assigns weather_dict only, and everything after it reads weather.
check_weather_tool(location, date, outcome) ==
    LET weather == IF outcome = LookupRaised THEN Unbound ELSE outcome
    IN  IF weather = Unbound
        THEN [raised |-> TRUE, exc |-> UnboundLocalError, result |-> NoReply]
        ELSE [raised |-> FALSE, exc |-> NoExc, result |-> WeatherReply(weather)]

\* tools.py:400-421 for a registered tool called with a dictionary: the
\* result of a failed call is the empty dictionary
ExecuteHandler(tool_name, parameters, handler) ==
    IF handler.raised
    THEN ToolResult(tool_name, parameters, NoReply, FALSE, handler.exc.text)
    ELSE ToolResult(tool_name, parameters, handler.result, TRUE, "")

\* the call as the log keeps it
WeatherEntry(location, date, outcome, result) ==
    [name |-> "check_weather", location |-> location, date |-> date,
     lookup_raised |-> (outcome = LookupRaised), raised |-> result.raised,
     success |-> result.success, result |-> result.result,
     error_message |-> result.error_message]

weatherFrame == <<ai_provider, vector_store, last_user_message, pc, iteration,
                  current_messages, content_buffer, tool_calls_buffer, current_tool_call,
                  tool_index, tool_results, events, pending_exc, provider_calls,
                  delivered, opened, tool_turns, provider_exc, budget, text_deltas,
                  restVars, suspended>>

\* execute_tool("check_weather", {location, date}), tools.py:400-421 with 428-494
ExecuteCheckWeather(location, date) ==
    /\ pc = "api"
    /\ Len(exec_log) < MaxWeatherCalls
    /\ \E outcome \in Lookups(IF location = NotGiven THEN DefaultLocation ELSE location, date) :
          LET parameters == Dict([location |-> location, date |-> date])
              handler == check_weather_tool(location, date, outcome)
              result == ExecuteHandler("check_weather", parameters, handler)
          IN  exec_log' = Append(exec_log, WeatherEntry(location, date, outcome, result))
    /\ UNCHANGED weatherFrame

WeatherNext ==
    \E location \in Locations \cup {NotGiven}, date \in Dates \cup {NotGiven} :
        ExecuteCheckWeather(location, date)

WeatherSpec == ScheduleInit /\ [][WeatherNext]_vars

------------------------------------------------------------------------------
(* Properties *)

EventsOfType(type) == {i \in 1..Len(events) : events[i].type = type}

NumEvents(type) == Cardinality(EventsOfType(type))

LastEvent == events[Len(events)]

\* the positions at which the tool-calling loop is running
LoopPcs == {"loop", "streaming", "tools", "exec"}

\* C1: on every path of a chat request (final answer, iteration cap, provider
\* failure, safety block, exception leaving chat_endpoint) the outward stream
\* holds exactly one done event, and it is the last event: nothing is ever
\* emitted after a done, done is emitted exactly when the stream closes.
C1_ExactlyOneDoneLast ==
    /\ \A i \in EventsOfType("done") : i = Len(events)
    /\ pc = "closed" <=> NumEvents("done") = 1

\* C1 witness: a request whose loop ran, with an exception leaving
\* chat_endpoint afterwards, has closed its stream
C1_Witness ==
    /\ pc = "closed"
    /\ pending_exc = OperationalError
    /\ provider_calls > 0
    /\ NumEvents("tool_call") > 0

\* C2: the tool-calling loop issues at most max_iterations provider calls,
\* issues no provider call and executes no tool once it has stopped, and
\* every invocation stops (the provider streams being finite).
C2_LoopTerminates ==
    /\ [](provider_calls <= max_iterations)
    /\ [][pc \notin LoopPcs => (provider_calls' = provider_calls /\ exec_log' = exec_log)]_vars
    /\ (pc \in LoopPcs) ~> (pc \notin LoopPcs)

\* C2 witness: a loop that has stopped after max_iterations provider calls
C2_Witness ==
    /\ pc = "save"
    /\ provider_calls = max_iterations
    /\ Len(exec_log) >= max_iterations

\* the content events that carry the iteration-cap notice
CapEvents == {i \in EventsOfType("content") : events[i].content = CapNotice}

\* C3: once the loop has returned: if every provider turn finalized at least
\* one tool call, the loop made exactly max_iterations provider calls and
\* emitted exactly one cap notice and no error event; and the cap notice is
\* emitted in that case only.
C3_CapExactlyWhenAllTurnsCallTools ==
    (pc = "save" /\ provider_calls > 0) =>
        /\ tool_turns = provider_calls =>
              /\ provider_calls = max_iterations
              /\ Cardinality(CapEvents) = 1
              /\ NumEvents("error") = 0
        /\ CapEvents # {} => (tool_turns = provider_calls /\ provider_exc = NoExc)

\* the step executed a tool call whose handler was invoked and raised
HandlerRaisedStep ==
    /\ Len(exec_log') = Len(exec_log) + 1
    /\ LET e == exec_log'[Len(exec_log')]
       IN  HandlerInvoked(e.name, e.arguments) /\ ~e.success

\* C4: a step in which a tool handler raises yields a ToolResult with
\* success false and error_message str(exception), appends that call's tool
\* message carrying {"error": message} under the call's id, emits no event
\* (so no error event) and leaves the loop running: at the next call of the
\* round, or at the loop head, where the next provider call can be issued
\* while iteration < max_iterations.
C4_HandlerFailureContained ==
    /\ [][HandlerRaisedStep =>
            LET e == exec_log'[Len(exec_log')]
                m == current_messages'[Len(current_messages')]
            IN  /\ ~e.raised
                /\ e.content = [error |-> TRUE, body |-> HandlerError.text]
                /\ Len(current_messages') = Len(current_messages) + 1
                /\ m.role = "tool" /\ m.tool_call_id = e.id /\ m.content = e.content
                /\ events' = events
                /\ pc' = IF tool_index < Len(tool_calls_buffer) THEN "tools" ELSE "loop"]_vars
    /\ []((pc = "loop" /\ iteration < max_iterations) =>
            (ENABLED ProviderCall /\ ~ENABLED CapReached))

\* C4 witness: the loop is streaming a further provider call after a handler
\* failure was folded into the conversation
C4_Witness ==
    /\ pc = "streaming"
    /\ \E i \in 1..Len(exec_log) : exec_log[i].content = [error |-> TRUE, body |-> HandlerError.text]
    /\ \E j \in 1..Len(current_messages) :
          /\ current_messages[j].role = "tool"
          /\ current_messages[j].content = [error |-> TRUE, body |-> HandlerError.text]

\* C5: a finalized tool call whose argument text is not valid JSON is
\* executed with the empty object as its arguments, execute_tool returns for
\* it, and no error event reports the decode failure; in both adapters.
C5_MalformedArgsBecomeEmpty ==
    /\ \A i \in 1..Len(exec_log) :
          ~JsonLoads(exec_log[i].text).ok =>
              (exec_log[i].arguments = EmptyDict /\ ~exec_log[i].raised)
    /\ \A i \in EventsOfType("error") : events[i].message # JSONDecodeError.text

\* the tool_call notices of the stream, in order
ToolCallEvents == SelectSeq(events, LAMBDA ev : ev.type = "tool_call")

\* the tool results folded into a message list, in order, as (call id, content)
RECURSIVE FoldedResults(_)
FoldedResults(msgs) ==
    IF msgs = <<>> THEN <<>>
    ELSE LET m == Head(msgs)
             here == IF m.role = "tool"
                     THEN <<[id |-> m.tool_call_id, content |-> m.content]>>
                     ELSE [i \in 1..Len(m.tool_results) |->
                             [id |-> m.tool_results[i].tool_use_id,
                              content |-> m.tool_results[i].content]]
         IN  here \o FoldedResults(Tail(msgs))

\* the results execute_tool has returned, in order, as (call id, content)
ReturnedResults ==
    LET ret == SelectSeq(exec_log, LAMBDA x : ~x.raised)
    IN  [i \in 1..Len(ret) |-> [id |-> ret[i].id, content |-> ret[i].content]]

IsPrefix(a, b) == Len(a) <= Len(b) /\ a = SubSeq(b, 1, Len(a))

\* C6: the i-th executed tool call is the one announced by the i-th
\* tool_call event, and that event is in the stream before the call is
\* executed (a call about to be executed has its notice already emitted);
\* a result is in the message list only after its call was executed, and the
\* message list of every provider call holds the result of every call
\* executed before it.
C6_NoticeBeforeExecutionBeforeFold ==
    /\ Len(ToolCallEvents) = Len(exec_log) + (IF pc = "exec" THEN 1 ELSE 0)
    /\ \A i \in 1..Len(exec_log) :
          /\ ToolCallEvents[i].name = exec_log[i].name
          /\ ToolCallEvents[i].arguments = exec_log[i].arguments
    /\ IsPrefix(FoldedResults(current_messages), ReturnedResults)
    /\ pc = "streaming" => FoldedResults(current_messages) = ReturnedResults

\* C6 witness: a provider call is under way whose message list holds the
\* results of two executed tool calls
C6_Witness ==
    /\ pc = "streaming"
    /\ Len(FoldedResults(current_messages)) >= 2
    /\ Len(ToolCallEvents) >= 2

\* message j is an assistant message carrying tool calls
CarriesToolCalls(msgs, j) == msgs[j].role = "assistant" /\ msgs[j].tool_calls # <<>>

\* the tool results that follow assistant message j answer its calls one by
\* one, in call order: k tool messages (OpenAI), or one user message with k
\* tool_result blocks (Anthropic)
AnsweredInOrder(msgs, j) ==
    LET calls == msgs[j].tool_calls
        k == Len(calls)
    IN  IF ai_provider = "anthropic"
        THEN /\ j + 1 <= Len(msgs)
             /\ msgs[j + 1].role = "user"
             /\ Len(msgs[j + 1].tool_results) = k
             /\ \A m \in 1..k : msgs[j + 1].tool_results[m].tool_use_id = calls[m].id
        ELSE /\ j + k <= Len(msgs)
             /\ \A m \in 1..k :
                   msgs[j + m].role = "tool" /\ msgs[j + m].tool_call_id = calls[m].id
             /\ j + k + 1 <= Len(msgs) => msgs[j + k + 1].role # "tool"

\* message i, a tool result, answers a call of the assistant message before it
HasCall(msgs, i) ==
    IF msgs[i].role = "tool"
    THEN \E j \in 1..(i - 1) :
            /\ CarriesToolCalls(msgs, j)
            /\ i - j <= Len(msgs[j].tool_calls)
            /\ msgs[i].tool_call_id = msgs[j].tool_calls[i - j].id
    ELSE msgs[i].tool_results # <<>> =>
            /\ i > 1
            /\ CarriesToolCalls(msgs, i - 1)

WellPaired(msgs) ==
    \A i \in 1..Len(msgs) :
        /\ HasCall(msgs, i)
        /\ CarriesToolCalls(msgs, i) => AnsweredInOrder(msgs, i)

\* C7: the message list of every provider call is well paired: every tool
\* result references a call id of the assistant message it follows, and every
\* assistant message with k tool calls is followed by exactly k tool results,
\* one per call id, in call order.
C7_MessagesWellPaired == pc = "streaming" => WellPaired(current_messages)

\* C7 witness: a provider call is under way after a round of two tool calls
C7_Witness ==
    /\ pc = "streaming"
    /\ \E j \in 1..Len(current_messages) :
          /\ CarriesToolCalls(current_messages, j)
          /\ Len(current_messages[j].tool_calls) = 2
          /\ current_messages[j].tool_calls[1].id # current_messages[j].tool_calls[2].id

\* C8: when a turn's tool calls are finalized, the argument text of each is
\* the concatenation, in arrival order, of the fragments the provider
\* delivered for that call id, and of nothing else.
C8_ArgumentsAreDeliveredFragments ==
    pc = "tools" =>
        \A i \in 1..Len(tool_calls_buffer) :
            tool_calls_buffer[i].arguments = delivered[tool_calls_buffer[i].id]

\* the error event the loop emitted for the failed provider call
ProviderErrorEvents ==
    {i \in EventsOfType("error") :
        /\ events[i].message = provider_exc.text
        /\ events[i].error_type = classify_error(provider_exc)}

\* C9 as claimed: after a provider call has failed the closed stream holds
\* exactly one error event, classified, immediately followed by done.
C9_OneErrorThenDone ==
    (provider_exc # NoExc /\ pc = "closed") =>
        /\ NumEvents("error") = 1
        /\ ProviderErrorEvents = {Len(events) - 1}
        /\ LastEvent.type = "done"

\* C9 amended: after a provider call has failed, the loop has stopped and
\* issues no further provider call and executes no tool; the loop has emitted
\* exactly one error event, carrying classify_error of the failure; the
\* closed stream ends with that error event immediately followed by done,
\* except when saving the interaction raised, where the error event of that
\* exception, and nothing else, stands between them.
C9_LoopErrorThenDone ==
    /\ [](provider_exc # NoExc =>
            /\ pc \in {"save", "raised", "closed"}
            /\ Cardinality(ProviderErrorEvents) = 1
            /\ pc = "save" => ProviderErrorEvents = {Len(events)} /\ NumEvents("error") = 1
            /\ pc = "closed" =>
                  /\ LastEvent.type = "done"
                  /\ IF pending_exc = NoExc
                     THEN ProviderErrorEvents = {Len(events) - 1} /\ NumEvents("error") = 1
                     ELSE /\ ProviderErrorEvents = {Len(events) - 2}
                          /\ events[Len(events) - 1] = ExceptionEvent(pending_exc)
                          /\ NumEvents("error") = 2)
    /\ [][provider_exc # NoExc =>
            (provider_calls' = provider_calls /\ exec_log' = exec_log)]_vars

\* C9 witness: a stream closed after a provider failure in the second round,
\* with content and a tool call before it
C9_Witness ==
    /\ pc = "closed"
    /\ provider_exc # NoExc
    /\ pending_exc = NoExc
    /\ provider_calls = 2
    /\ exec_log # <<>>

\* the provider calls the loop has issued in the current round
AttemptsOfRound == provider_calls - (iteration - 1)

\* C10: the loop emits the error event of a failed provider call only after
\* LLM_MAX_RETRIES further attempts of that call have failed too.
C10_ErrorOnlyAfterRetries ==
    provider_exc # NoExc => AttemptsOfRound = LLM_MAX_RETRIES + 1

\* the error events of a wrapper's stream
WrapperErrors == {i \in DOMAIN events : events[i].type = "error"}

\* C11: a retry wrapper makes at most LLM_MAX_RETRIES + 1 attempts; once an
\* attempt has succeeded the stream holds no error event; an error event is
\* in the stream only after LLM_MAX_RETRIES + 1 attempts have failed,
\* whatever their kinds, and then it is the only one, the last event, and
\* carries classify_error of the last failure.
C11_WrapperRetriesThenOneError ==
    /\ Len(attempt_log) <= LLM_MAX_RETRIES + 1
    /\ (\E i \in DOMAIN attempt_log : attempt_log[i] = NoExc) => WrapperErrors = {}
    /\ (pc = "returned" /\ \A i \in DOMAIN attempt_log : attempt_log[i] # NoExc) =>
          /\ Len(attempt_log) = LLM_MAX_RETRIES + 1
          /\ WrapperErrors = {Len(events)}
          /\ events[Len(events)].error_type =
                classify_error(attempt_log[Len(attempt_log)])
    /\ WrapperErrors # {} =>
          /\ pc = "returned"
          /\ Len(attempt_log) = LLM_MAX_RETRIES + 1

\* C11 witness: a run that retried an auth failure and gave up after the
\* third attempt failed with a connection error
C11_Witness ==
    /\ pc = "returned"
    /\ Len(attempt_log) = LLM_MAX_RETRIES + 1
    /\ attempt_log[1] = AuthenticationError
    /\ attempt_log[Len(attempt_log)] = APIConnectionError
    /\ WrapperErrors # {}

\* the request is past the loop, whose last provider turn finalized no tool call
FinalTurnEnded ==
    /\ pc \in {"save", "raised", "closed"}
    /\ provider_calls > 0
    /\ provider_exc = NoExc
    /\ tool_turns < provider_calls

\* every event of the stream before position n is a content event
ContentBefore(n) == \A i \in 1..(n - 1) : events[i].type = "content"

\* C12 as claimed: after a one-turn text answer the closed stream is exactly
\* the content events followed by done.
C12_OneTurnContentThenDone ==
    (FinalTurnEnded /\ provider_calls = 1 /\ pc = "closed") =>
        /\ LastEvent.type = "done"
        /\ ContentBefore(Len(events))

\* C12 amended: when a provider turn ends with zero finalized tool calls the
\* loop stops at once: that step emits nothing and executes nothing, and
\* afterwards no provider call is made, no tool is executed and no tool_call
\* event is emitted; after a one-turn text answer the closed stream is the
\* content events followed by done, with the error event of the save failure
\* between them when saving the interaction raised.
C12_NoToolCallsStopsLoop ==
    /\ [][(pc = "streaming" /\ pc' # "streaming" /\ Finalized = <<>>
             /\ provider_exc' = NoExc) =>
            (pc' = "save" /\ events' = events /\ exec_log' = exec_log
             /\ provider_calls' = provider_calls)]_vars
    /\ [][FinalTurnEnded =>
            (FinalTurnEnded' /\ provider_calls' = provider_calls
             /\ exec_log' = exec_log /\ ToolCallEvents' = ToolCallEvents)]_vars
    /\ []((FinalTurnEnded /\ provider_calls = 1) =>
            /\ ToolCallEvents = <<>>
            /\ exec_log = <<>>
            /\ pc = "save" => ContentBefore(Len(events) + 1)
            /\ pc = "closed" =>
                  /\ LastEvent.type = "done"
                  /\ IF pending_exc = NoExc
                     THEN ContentBefore(Len(events))
                     ELSE /\ events[Len(events) - 1] = ExceptionEvent(pending_exc)
                          /\ ContentBefore(Len(events) - 1))

\* C12 witness: a closed stream of two content events and done
C12_Witness ==
    /\ FinalTurnEnded
    /\ provider_calls = 1
    /\ pc = "closed"
    /\ pending_exc = NoExc
    /\ Len(events) = 3

\* the entries of exec_log made in the current round of tool calls
RoundExecuted == SubSeq(exec_log, Len(exec_log) - (tool_index - 1) + 1, Len(exec_log))

\* C13: no call id appears more than once in the finalized list of a turn,
\* and no call id is executed more than once in the round of that turn.
C13_NoCallFinalizedTwice ==
    pc \in {"tools", "exec"} =>
        /\ \A i, j \in DOMAIN tool_calls_buffer :
              tool_calls_buffer[i].id = tool_calls_buffer[j].id => i = j
        /\ \A i, j \in DOMAIN RoundExecuted :
              RoundExecuted[i].id = RoundExecuted[j].id => i = j

\* the provider stream of the last turn has ended without raising
StreamEnded ==
    /\ pc \in {"tools", "exec", "save", "raised", "closed"}
    /\ provider_calls > 0
    /\ provider_exc = NoExc

\* the call ids of the finalized list
FinalizedIds == {tool_calls_buffer[i].id : i \in DOMAIN tool_calls_buffer}

\* C14: once a provider stream has ended, every tool call opened during it
\* is in the finalized list.
C14_OpenedCallsFinalized == StreamEnded => opened \subseteq FinalizedIds

\* the non-empty text deltas received, in arrival order
NonEmptyDeltas == SelectSeq(text_deltas, LAMBDA d : d.text # "")

\* the content events that forward model text (the notices of chat.py:163 and
\* chat.py:307 are content events too)
ForwardedContent ==
    SelectSeq(events, LAMBDA ev : ev.type = "content"
                                  /\ ev.content \notin {CapNotice, NotConfigured})

\* the non-empty text deltas of one turn, as the texts they carry
TurnTexts(turn) ==
    LET ds == SelectSeq(NonEmptyDeltas, LAMBDA d : d.turn = turn)
    IN  [i \in 1..Len(ds) |-> ds[i].text]

\* C15: the content events that forward model text are exactly the non-empty
\* text deltas received, one event per delta in arrival order; the step that
\* receives a text delta appends its event at once; and the assistant message
\* appended for a tool-calling turn carries exactly the non-empty text deltas
\* of that turn, in order.
C15_ContentIsTheTextDeltas ==
    /\ [](ForwardedContent =
            [i \in 1..Len(NonEmptyDeltas) |-> ContentEvent(NonEmptyDeltas[i].text)])
    /\ [][Len(text_deltas') = Len(text_deltas) + 1 =>
            LET d == text_deltas'[Len(text_deltas')]
            IN  events' = IF d.text = "" THEN events
                          ELSE Append(events, ContentEvent(d.text))]_vars
    /\ [][(pc = "streaming" /\ pc' = "tools") =>
            /\ Len(current_messages') = Len(current_messages) + 1
            /\ current_messages'[Len(current_messages')].role = "assistant"
            /\ current_messages'[Len(current_messages')].content = TurnTexts(iteration)]_vars

\* C15 witness: a tool-calling turn that received an empty and a non-empty
\* text delta has appended its assistant message
C15_Witness ==
    /\ pc = "tools"
    /\ Len(NonEmptyDeltas) = 1
    /\ Len(text_deltas) = 2
    /\ current_messages[Len(current_messages)].content = <<"Hi">>

\* C16: when the notice of a tool call is emitted, no text delta that the
\* model produced after it had started that call (in the same turn) has had
\* its content event emitted yet.
C16_NoticeBeforeLaterText ==
    pc = "exec" =>
        \A i \in DOMAIN text_deltas :
            ~(/\ text_deltas[i].turn = iteration
              /\ text_deltas[i].text # ""
              /\ tool_calls_buffer[tool_index].id \in text_deltas[i].after)

\* C17: a call of an unregistered tool invokes no handler, does not raise,
\* and its result, folded under the call id, is the error that names the tool.
C17_UnknownToolIsAnErrorResult ==
    \A i \in DOMAIN exec_log :
        exec_log[i].name \notin RegisteredTools =>
            /\ ~HandlerInvoked(exec_log[i].name, exec_log[i].arguments)
            /\ ~exec_log[i].raised
            /\ ~exec_log[i].success
            /\ exec_log[i].content =
                  [error |-> TRUE, body |-> UnknownToolMessage(exec_log[i].name)]

\* C18: whichever adapter runs, a finalized call is announced and executed
\* as the other adapter would announce and execute it: both derive the same
\* argument object from the call's argument text, and execute_tool has the
\* same outcome (a result or an exception) for both.
C18_AdaptersAgree ==
    pc = "exec" =>
        LET call == tool_calls_buffer[tool_index]
        IN  /\ ToolArgs("openai", call) = ToolArgs("anthropic", call)
            /\ \A handler_raises \in BOOLEAN :
                  execute_tool(call.name, ToolArgs("openai", call), handler_raises)
                  = execute_tool(call.name, ToolArgs("anthropic", call), handler_raises)

\* the error events that report a failed retrieval
RagErrorEvents ==
    {i \in EventsOfType("error") : events[i].error_type = classify_error(APIConnectionError)}

ActivitiesRetrieved ==
    \E i \in DOMAIN exec_log :
        /\ exec_log[i].success
        /\ vector_store = "ok"

\* C20: a closed stream of a request for which activities were retrieved
\* carries at least one activity event before done.
C20_ActivityEventBeforeDone ==
    (pc = "closed" /\ ActivitiesRetrieved) =>
        \E i \in EventsOfType("activity") : i < Len(events)

\* the step executed a tool call that failed: execute_tool returned a
\* ToolResult with success false, or raised
ToolFailedStep ==
    /\ Len(exec_log') = Len(exec_log) + 1
    /\ ~exec_log'[Len(exec_log')].success

\* the events that carry the error message of an executed call
FailureEvents(e) == {k \in DOMAIN events : events[k].message = e.content.body}

StorageFailed(e) ==
    /\ e.name = "save_activity"
    /\ HandlerInvoked(e.name, e.arguments)
    /\ RequiredParams(e.name) \subseteq Keys(e.arguments)
    /\ ~db.writable

\* what save_activity returns when nothing was persisted
NothingSaved ==
    "{\"success\": false, \"fully_persisted\": false, \"saved_to\": {\"sqlite\": false, \"pinecone\": false}}"

C23_NoWorkAfterDisconnect ==
    (client.gone /\ client.received > 0) =>
        /\ provider_calls = client.provider_calls
        /\ Len(exec_log) = client.executed

\* C24: under every interleaving of two chat requests, every message list a
\* request sends to the provider holds only messages that request built or
\* appended; the list chat_endpoint hands to the loop keeps the content it
\* was built with; and no step of a request changes the tool registry.
C24_NoSharedLoopState ==
    /\ [](\A r \in Requests : \A i \in DOMAIN requests[r].sent :
            \A j \in DOMAIN requests[r].sent[i] : requests[r].sent[i][j].request = r)
    /\ [](\A r \in Requests :
            requests[r].messages # 0 => heap[requests[r].messages] = RequestMessages(r))
    /\ [](\A r, q \in Requests :
            (r # q /\ requests[r].current # 0) =>
                requests[r].current \notin {requests[q].current, requests[q].messages})
    /\ [][tools' = tools]_vars

\* C24 witness: both requests are in their second provider call, each after
\* a round of tool calls of its own
C24_Witness ==
    \A r \in Requests :
        /\ requests[r].pc = "streaming"
        /\ Len(requests[r].sent) = 2
        /\ Len(requests[r].sent[2]) > Len(requests[r].sent[1])

\* the loop is past a round of tool calls it began, or past the turn that
\* finalized them
RoundLeft ==
    /\ provider_calls > 0
    /\ tool_turns = provider_calls
    /\ pc \in {"loop", "save", "raised", "closed"}

\* C25: the calls of a round are handled one after the other in call-list
\* order and each exactly once.  While the round runs, the result of every
\* call announced before the next notice has been executed and appended;
\* once the loop has left the round, the last k notices, the last k
\* executions and the last k folded results are those of its k calls, in
\* order, and execute_tool returned for each.
C25_RoundSequentialExactlyOnce ==
    /\ pc = "tools" =>
          Len(ReturnedResults) =
              Len(FoldedResults(current_messages))
              + (IF ai_provider = "anthropic" THEN Len(tool_results) ELSE 0)
    /\ RoundLeft =>
          LET k == Len(tool_calls_buffer)
              folded == FoldedResults(current_messages)
          IN  /\ Len(exec_log) >= k
              /\ Len(ToolCallEvents) >= k
              /\ Len(folded) >= k
              /\ \A i \in 1..k :
                    /\ exec_log[Len(exec_log) - k + i].id = tool_calls_buffer[i].id
                    /\ ~exec_log[Len(exec_log) - k + i].raised
                    /\ ToolCallEvents[Len(ToolCallEvents) - k + i].name
                          = tool_calls_buffer[i].name
                    /\ folded[Len(folded) - k + i].id = tool_calls_buffer[i].id

\* the concatenation of a sequence of texts: the texts in order, the empty
\* ones left out
NonEmptyTexts(texts) == SelectSeq(texts, LAMBDA t : t # "")

\* the response of the attempt that ended without an exception: the deltas
\* of the last attempt
CompleteResponse ==
    LET last == SelectSeq(text_deltas, LAMBDA d : d.turn = attempt)
    IN  [i \in DOMAIN last |-> last[i].text]

WrapperContentEvents ==
    LET received == SelectSeq(events, LAMBDA e : e.type = "content")
    IN  [i \in DOMAIN received |-> received[i].content]

\* C26: under the retry wrapper content text is never dropped or duplicated:
\* when the wrapper has returned after an attempt that succeeded, the
\* concatenation of the content events the client received is the text of
\* that attempt's complete response, whatever earlier attempts had emitted
\* before they failed
C26_WrapperContentOnce ==
    (pc = "returned" /\ attempt_log # <<>> /\ attempt_log[Len(attempt_log)] = NoExc) =>
        NonEmptyTexts(WrapperContentEvents) = NonEmptyTexts(CompleteResponse)

\* the ids save_schedule has returned to a client
ReturnedTo(c) == {x.id : x \in responses.returned \cap [id : Uuids, client : {c}]}

SuccessfulDeletes(schedule_id) ==
    Len(SelectSeq(responses.deleted, LAMBDA d : d = schedule_id))

\* C27: within the rate limits, once save_schedule has returned an id to a
\* user, the user's list has total >= 1 and the user's get(id) succeeds
\* until the user calls delete(id); the owner's delete(id) succeeds exactly
\* once, and after it get(id) and a further delete(id) return 404
C27_ScheduleLifecycle ==
    LET r == responses.last
        kept == ReturnedTo(r.client) \ responses.delete_called
    IN  /\ (r.op = "list" /\ kept # {}) => r.total >= 1
        /\ (r.op = "get" /\ r.id \in kept) => r.status = 200
        /\ (r.op = "get" /\ SuccessfulDeletes(r.id) > 0) => r.status = 404
        /\ \A schedule_id \in Uuids : SuccessfulDeletes(schedule_id) <= 1
        /\ (r.op = "delete" /\ r.id \in ReturnedTo(r.client) /\ r.status # 429) =>
              /\ r.status \in {200, 404}
              /\ r.status = 404 => SuccessfulDeletes(r.id) = 1

\* C28: execute_tool returns a ToolResult and propagates no exception,
\* whatever the tool name and whatever value the arguments decode to (a list,
\* a number or a string included), so that a round of tool calls puts no
\* error event on the stream
C28_ExecuteToolNeverRaises ==
    /\ \A i \in DOMAIN exec_log : ~exec_log[i].raised
    /\ \A i \in DOMAIN events : events[i].type # "error"

\* the result messages and blocks appended for the model so far, in order:
\* the ones in the message list and, under Anthropic, the blocks of the
\* round in progress (chat.py:433-437)
AppendedResults ==
    FoldedResults(current_messages)
    \o (IF ai_provider = "anthropic"
        THEN [i \in 1..Len(tool_results) |->
                [id |-> tool_results[i].tool_use_id, content |-> tool_results[i].content]]
        ELSE <<>>)

\* C29: for each executed tool call the message appended for the model is
\* keyed to the call's id; its content is the JSON text of the tool's result
\* when the tool succeeded and {"error": <error_message>} when it failed
C29_ResultMessageKeyedAndSerialized ==
    LET ret == SelectSeq(exec_log, LAMBDA x : ~x.raised)
    IN  /\ Len(AppendedResults) = Len(ret)
        /\ \A i \in 1..Len(ret) :
              /\ AppendedResults[i].id = ret[i].id
              /\ AppendedResults[i].content =
                     IF ret[i].success
                     THEN [error |-> FALSE, body |-> ret[i].result]
                     ELSE [error |-> TRUE, body |-> ret[i].error_message]

\* a round whose first call failed and whose second call succeeded, both
\* results appended
C29_Witness ==
    /\ Len(AppendedResults) = 2
    /\ Len(exec_log) = 2
    /\ ~exec_log[1].raised /\ ~exec_log[1].success
    /\ AppendedResults[1].content.error
    /\ ~exec_log[2].raised /\ exec_log[2].success
    /\ ~AppendedResults[2].content.error

\* the attempts of the wrapper that have failed
FailedAttempts == SelectSeq(attempt_log, LAMBDA a : a # NoExc)

\* C30: the retry wrapper waits 2^attempt seconds between consecutive
\* attempts, attempt counted from 0 (1 s after the first failure, 2 s after
\* the second), and does not wait after the last failed attempt, the one that
\* is followed by the error event
C30_BackoffBetweenAttempts ==
    /\ Len(sleeps) = Len(FailedAttempts) - (IF WrapperErrors # {} THEN 1 ELSE 0)
    /\ \A i \in DOMAIN sleeps : sleeps[i] = 2 ^ (i - 1)
    /\ Len(sleeps) <= LLM_MAX_RETRIES

\* the wrapper has given up after its last attempt, having waited 1 s and 2 s
C30_Witness ==
    /\ pc = "returned"
    /\ WrapperErrors # {}
    /\ Len(FailedAttempts) = LLM_MAX_RETRIES + 1
    /\ sleeps = <<1, 2>>

\* the kinds of observability.classify_error
ErrorKinds == {"timeout", "auth", "network", "validation", "internal"}

HasTimeout(e) == "timeout" \in e.name \cup e.msg

HasAuth(e) == "auth" \in e.name \/ e.msg \cap {"unauthorized", "invalid api key"} # {}

HasNetwork(e) == "connection" \in e.name \/ "network" \in e.msg

HasValidation(e) == "validation" \in e.name \/ "pydantic" \in e.msg

\* C31: classify_error is total over the exceptions and returns one of
\* timeout, auth, network, validation, internal, testing timeout first, then
\* auth, then network, then validation, internal being the fallback; the
\* error event of a failed provider call carries that value as error_type
C31_ClassifiedByPrecedence ==
    provider_exc # NoExc =>
        LET e == provider_exc
            ev == events[Len(events) - (IF pc = "closed" THEN 1 ELSE 0)]
        IN  /\ ev.type = "error"
            /\ ev.error_type \in ErrorKinds
            /\ ev.error_type = "timeout" <=> HasTimeout(e)
            /\ ev.error_type = "auth" <=> (~HasTimeout(e) /\ HasAuth(e))
            /\ ev.error_type = "network" <=> (~HasTimeout(e) /\ ~HasAuth(e) /\ HasNetwork(e))
            /\ ev.error_type = "validation" <=>
                  (~HasTimeout(e) /\ ~HasAuth(e) /\ ~HasNetwork(e) /\ HasValidation(e))
            /\ ev.error_type = "internal" <=>
                  ~(HasTimeout(e) \/ HasAuth(e) \/ HasNetwork(e) \/ HasValidation(e))

\* a provider failure whose exception matches both the timeout and the auth
\* test has been reported as a timeout
C31_Witness ==
    /\ provider_exc # NoExc
    /\ HasTimeout(provider_exc) /\ HasAuth(provider_exc)
    /\ \E i \in DOMAIN events : events[i].type = "error" /\ events[i].error_type = "timeout"

\* the allow() calls of a key that were allowed at an instant in (t - window, t]
AllowedIn(key, t) ==
    {i \in DOMAIN allow_log :
        /\ allow_log[i].key = key
        /\ allow_log[i].allowed
        /\ t - window < allow_log[i].t
        /\ allow_log[i].t <= t}

\* C32: for every key and every instant t the limiter has allowed at most
\* max_requests calls of the key at instants in (t - window_seconds, t]
C32_AtMostMaxPerWindow ==
    \A key \in LimiterKeys : \A t \in 0..now :
        Cardinality(AllowedIn(key, t)) <= MaxRequestsPerWindow

\* a key has been allowed max_requests times, then denied inside the window,
\* and allowed again once the window had passed
C32_Witness ==
    \E key \in LimiterKeys : \E i, j \in DOMAIN allow_log :
        /\ i < j
        /\ allow_log[i].key = key /\ ~allow_log[i].allowed
        /\ allow_log[j].key = key /\ allow_log[j].allowed
        /\ Cardinality({k \in 1..(i - 1) : allow_log[k].key = key /\ allow_log[k].allowed})
              = MaxRequestsPerWindow

\* the next call of the same key after call i, if there is one
NextOfKey(i, j) ==
    /\ i < j
    /\ allow_log[j].key = allow_log[i].key
    /\ \A k \in (i + 1)..(j - 1) : allow_log[k].key # allow_log[i].key

\* C33: a call denied with retry_after = r has r >= 1, and the next call of
\* the same key, made r seconds later, is allowed
C33_RetryAfterIsEnough ==
    \A i, j \in DOMAIN allow_log :
        (~allow_log[i].allowed /\ NextOfKey(i, j)) =>
            /\ allow_log[i].retry_after >= 1
            /\ allow_log[j].t = allow_log[i].t + allow_log[i].retry_after * TicksPerSecond
                  => allow_log[j].allowed

IsSuffix(a, b) == Len(a) <= Len(b) /\ a = SubSeq(b, Len(b) - Len(a) + 1, Len(b))

\* C34: a denied allow(key) records nothing: the key's timestamps are the
\* ones it had, less those older than the window, so that the oldest one that
\* counts is not moved; the timestamps of every other key are unchanged
C34_DeniedRecordsNothing ==
    [][(Len(allow_log') = Len(allow_log) + 1 /\ ~allow_log'[Len(allow_log')].allowed) =>
          LET key == allow_log'[Len(allow_log')].key
              before == limiter_events[key]
              after == limiter_events'[key]
          IN  /\ IsSuffix(after, before)
              /\ Len(after) >= MaxRequestsPerWindow
              /\ \A k \in 1..(Len(before) - Len(after)) : before[k] < now - window
              /\ \A other \in LimiterKeys \ {key} :
                    limiter_events'[other] = limiter_events[other]]_vars

\* C34 witness: a key has been denied while its window was full, and
\* another key has been allowed after that
C34_Witness ==
    \E i \in DOMAIN allow_log :
        /\ i + 1 <= Len(allow_log)
        /\ ~allow_log[i].allowed
        /\ allow_log[i + 1].key # allow_log[i].key /\ allow_log[i + 1].allowed
        /\ Len(limiter_events[allow_log[i].key]) = MaxRequestsPerWindow

\* the rows of the schedules table that belong to other users than user_id
RowsOfOthers(rows, user_id) == {row \in rows : row.user_id # user_id}

Blocked == last_user_message \in BLOCKED_PATTERNS

\* nothing was done for the request besides answering it
NothingDone ==
    /\ provider_calls = 0
    /\ exec_log = <<>>
    /\ interactions = <<>>

\* C36 as claimed: when the last user message matches a blocked pattern the
\* closed stream is exactly [error of type safety, done], and no provider
\* call was made, no tool executed and no interaction recorded
C36_BlockedStreamIsErrorDone ==
    Blocked =>
        /\ NothingDone
        /\ pc = "closed" => events = <<ErrorEvent(SafetyMessage, "safety"), DoneEvent>>

\* C36 amended: for a blocked message no provider call is made, no tool is
\* executed and no interaction is recorded; the closed stream is exactly
\* [error of type safety, done], unless reading the user's context raised
\* before the safety check: then it is [error for that exception, done]
C36_BlockedNothingDone ==
    Blocked =>
        /\ NothingDone
        /\ pc = "closed" =>
              events = <<IF pending_exc = NoExc
                         THEN ErrorEvent(SafetyMessage, "safety")
                         ELSE ExceptionEvent(pending_exc),
                         DoneEvent>>

\* a blocked request has been answered with the safety error and done
C36_Witness ==
    /\ Blocked
    /\ pc = "closed"
    /\ Len(events) = 2
    /\ events[1].error_type = "safety"

\* the last n elements of a sequence
LastN(seq, n) == SubSeq(seq, Len(seq) - n + 1, Len(seq))

\* the tool calls finalized by the last provider turn
FinalRound == tool_calls_buffer

\* C37: when the loop has stopped at the iteration cap, the tool calls of the
\* final round have been executed and have returned (so their side effects
\* have happened), their results are the last messages of the message list,
\* and every provider call was made before them: the final round is the turn
\* of the max_iterations-th provider call and no provider call follows it.
C37_FinalRoundResultsUnseen ==
    /\ [](CapEvents # {} =>
            LET n == Len(FinalRound)
                done == LastN(exec_log, n)
                folded == LastN(FoldedResults(current_messages), n)
            IN  /\ n > 0
                /\ Len(exec_log) >= n
                /\ \A i \in 1..n :
                      /\ done[i].id = FinalRound[i].id
                      /\ done[i].name = FinalRound[i].name
                      /\ ~done[i].raised
                      /\ folded[i] = [id |-> FinalRound[i].id, content |-> done[i].content]
                /\ current_messages[Len(current_messages)].role = "tool"
                /\ provider_calls = max_iterations)
    /\ [][provider_calls = max_iterations => provider_calls' = provider_calls]_vars

\* C37 witness: the loop stopped at the cap after a final round whose
\* call was executed successfully, and the request is over
C37_Witness ==
    /\ CapEvents # {}
    /\ pc = "closed"
    /\ provider_calls = max_iterations
    /\ Len(exec_log) = max_iterations
    /\ exec_log[Len(exec_log)].success
    /\ current_messages[Len(current_messages)].tool_call_id = exec_log[Len(exec_log)].id

\* the loop has run, or no provider is configured: neither the read of the
\* user's context nor the construction of the provider's client has raised
ReachedSave == provider_calls > 0 \/ (events # <<>> /\ events[1] = ContentEvent(NotConfigured))

\* C38 as stated: every request that is over, is not blocked and has a
\* non-empty user message has called add_interaction exactly once.
C38_InteractionExactlyOnce ==
    (pc = "closed" /\ ~Blocked /\ last_user_message # "") => Len(interactions) = 1

\* C38 amended: add_interaction is called at most once, and only after the
\* loop; a request that is over and is not blocked has called it exactly
\* once if its message is not empty once normalised and it got as far as the
\* loop (or the not-configured reply), with every event of the loop yielded
\* and done not yet; it has not called it otherwise.
C38_InteractionOnceAfterLoop ==
    /\ [](Len(interactions) <= 1)
    /\ [][interactions' # interactions => pc = "save"]_vars
    /\ []((pc = "closed" /\ ~Blocked) =>
            IF last_user_message # "" /\ ReachedSave
            THEN /\ Len(interactions) = 1
                 /\ LET k == interactions[1].yielded
                    IN  /\ k < Len(events)
                        /\ \A i \in 1..k : events[i].type # "done"
                        /\ \A i \in (k + 1)..Len(events) :
                              events[i].type \in {"done", "error"}
                        /\ events[k + 1] = IF interactions[1].raised
                                           THEN ExceptionEvent(pending_exc)
                                           ELSE DoneEvent
            ELSE interactions = <<>>)

\* C38 witness: the loop ended with a provider error event, and the
\* interaction was saved before done
C38_Witness ==
    /\ pc = "closed"
    /\ provider_exc # NoExc
    /\ Len(interactions) = 1
    /\ ~interactions[1].raised
    /\ events[Len(events)] = DoneEvent

\* tools.py:1273-1275: the result of a save_activity call that reports success
ReportsSaved(entry) ==
    /\ entry.success
    /\ entry.result = "{\"success\": true, \"fully_persisted\": false, \"saved_to\": {\"sqlite\": true, \"pinecone\": false}}"

\* the executed save_activity calls that report success
SuccessfulSaves ==
    {i \in 1..Len(exec_log) : exec_log[i].name = "save_activity" /\ ReportsSaved(exec_log[i])}

\* C39: save_activity reports what it persisted: the activity rows written
\* are those of the calls that returned success; a call that failed (raised,
\* or returned success false) has written none.
C39_SaveReportsWhatItPersisted == db.activities = Cardinality(SuccessfulSaves)

\* the executed check_weather calls whose weather lookup raised
FailedLookups == {i \in 1..Len(exec_log) : exec_log[i].lookup_raised}

\* C40: a check_weather call whose weather lookup raised returns, as a
\* successful result, the fallback weather with its planning note.
C40_FallbackWhenLookupRaises ==
    \A i \in FailedLookups :
        /\ exec_log[i].success
        /\ exec_log[i].result =
              WeatherReply(FallbackWeather(exec_log[i].location, exec_log[i].date))

====
